---- MODULE Spec2Model ----
(***************************************************************************)
(* The admin console of the messaging platform as a state machine: the     *)
(* identity guard (AuthProvider), the request helper, and the conversation *)
(* view (ChatPanel) with its feed window, pagination flags and the         *)
(* requests it has in flight.  A message is its id; server[i] is the       *)
(* conversation message i belongs to.                                      *)
(***************************************************************************)
EXTENDS Integers, Sequences, FiniteSets, Bags, TLC

VARIABLES
  admin,            \* AuthProvider: identity, NoAdmin while unknown
  loading,          \* AuthProvider: the placeholder is shown
  href,             \* window.location.href
  unloaded,         \* the document has been replaced by the navigation
  socket,           \* SocketProvider: "none" or "open"
  conversationId,   \* ChatPanel prop: the selected conversation, NoConv if none
  messages,         \* ChatPanel: the feed window, a sequence of message ids
  hasMore,          \* ChatPanel: older messages are known to exist
  loadingMore,      \* ChatPanel: a backfill is in flight
  isInitialLoad,    \* ChatPanel: the ref that arms the first scroll to bottom
  input,            \* ChatPanel: the composer's text
  sending,          \* ChatPanel: a send is in progress
  uploading,        \* ChatPanel: an upload is in progress
  handler,          \* conversation of the registered new_message handler
  alertCount,       \* number of alert() dialogs shown
  initialScrolls,   \* non-smooth scrollIntoView calls since the last selection
  net,              \* bag of the requests in flight whose answer the feed reads
  aux,              \* bag of the other requests in flight (detail, read
                    \* marker, tags)
  events,           \* new_message events the server has pushed, in order
  server,           \* server[i] = conversation of message i
  used,             \* how often each bounded operation has run
  sockets,          \* the sockets io() has created, in order
  joins,            \* org ids of the join_org emits, in order
  unhandled,        \* a promise was rejected with no handler attached
  route,            \* the page the router renders
  crud,             \* local state of the list pages
  calls,            \* bag of the list pages' requests in flight
  confirms,         \* confirm() dialogs the user accepted and declined
  store,            \* the backend's lists
  conversation,     \* ChatPanel: the conversation whose summary is held
  outbound,         \* ids of the messages the backend stored for the page's
                    \* sends and uploads
  filter,           \* ConversationsPage: the selected status filter
  conversations,    \* ConversationsPage: the list shown
  lists,            \* bag of the conversation-list requests in flight
  ai,               \* AiToggle: enabled and loading
  toggles,          \* bag of AiToggle's requests in flight
  emits,            \* join_conversation / leave_conversation emits, in order
  listeners         \* bag of the registered ChatPanel new_message handlers

vars == <<admin, loading, href, unloaded, socket, conversationId, messages,
          hasMore, loadingMore, isInitialLoad, input, sending, uploading,
          handler, alertCount, initialScrolls, net, aux, events, server, used,
          sockets, joins, unhandled, route, crud, calls, confirms, store,
          conversation, outbound, filter, conversations, lists, ai, toggles,
          emits, listeners>>

PageVars == <<route, crud, calls, confirms, store>>

ListVars == <<filter, conversations, lists>>
ToggleVars == <<ai, toggles>>
ScopeVars == <<emits, listeners>>
MoreVars == <<conversation, outbound, ListVars, ToggleVars, ScopeVars>>

(* ------------------------------ bounds --------------------------------- *)
Total1 == 120       \* messages of conversation 1 when the page opens
Total2 == 3         \* messages of conversation 2 when the page opens
MaxNew == 2         \* messages written, sent or uploaded while the page is open
MaxSelect == 2      \* changes of the selected conversation
MaxConnect == 2     \* times a socket gets connected
MaxEdit == 2        \* user actions on a list page or on the tags
MaxPending == 3     \* requests of the conversation list or of the toggle in flight
MaxToggle == 4      \* clicks on the AI auto-reply toggle

(* --------------------------- program constants ------------------------- *)
PageSize == 50
NoConv == 0
NoAdmin == 0
Convs == {1, 2}
Admins == {7}
App == "/messaging"
Login == "/admin/login"
Texts == {"", " ", "hi"}
Allowed == {"image/jpeg", "image/png", "image/gif", "image/webp",
            "video/mp4", "video/quicktime", "video/webm"}
MaxFileSize == 10 * 1024 * 1024
Files == { [type |-> "image/png", size |-> 5 * 1024 * 1024],
           [type |-> "image/png", size |-> 11 * 1024 * 1024],
           [type |-> "text/plain", size |-> 1024],
           [type |-> "video/webm", size |-> 10 * 1024 * 1024],
           [type |-> "image/gif", size |-> 10 * 1024 * 1024 + 1] }
Statuses == {401, 500}
NoOrg == 0
Ids == {1, 2}
NoId == 0
ListViews == {"templates", "channels", "providers"}
Routes == ListViews \cup {"conversations"}

(* ------------------------------ the server ----------------------------- *)
\* Conversation 2 holds the even ids 2, 4, .. 2*Total2; conversation 1 the rest.
InitServer ==
  [i \in 1..(Total1 + Total2) |->
      IF i <= 2 * Total2 /\ i % 2 = 0 THEN 2 ELSE 1]

\* ids of conversation c in ascending order, below `before` when it is given
IdsOf(c, before) ==
  SelectSeq([i \in 1..Len(server) |-> i],
            LAMBDA i : server[i] = c /\ (before = 0 \/ i < before))

LastN(s, n) == IF Len(s) <= n THEN s ELSE SubSeq(s, Len(s) - n + 1, Len(s))

\* GET /conversations/c/messages?limit=n[&before_id=b]
Page(c, n, before) == LastN(IdsOf(c, before), n)

Range(s) == {s[i] : i \in 1..Len(s)}

(* ------------------------------ requests ------------------------------- *)
Req(kind, c, before) ==
  [kind |-> kind, conv |-> c, before |-> before, st |-> "sent",
   page |-> <<>>, total |-> 0]

Add(n, r) == n (+) SetToBag({r})
Del(n, r) == n (-) SetToBag({r})
InFlight == BagToSet(net)
\* number of requests of one kind in flight
Count(kind) ==
  BagCardinality([r \in {x \in InFlight : x.kind = kind} |-> net[r]])

\* input.trim()
Trim(t) == IF t = " " THEN "" ELSE t

(* --------------------------- SocketProvider ---------------------------- *)
\* admin.org_id
OrgId(a) == IF a = NoAdmin THEN NoOrg ELSE 10 * a

\* the effect without its test of the identity
SocketEffectUnguarded(ss, a) ==
  LET closed == [i \in 1..Len(ss) |-> [ss[i] EXCEPT !.st = "disconnected"]]
  IN Append(closed, [org |-> OrgId(a), st |-> "connecting"])

\* the effect without its test of the identity and without its cleanup
SocketEffectNoCleanup(ss, a) ==
  Append(ss, [org |-> OrgId(a), st |-> "connecting"])

\* The effect of SocketProvider runs for identity a: the cleanup the previous
\* run returned disconnects its socket, then io() opens one unless a is null
SocketEffect(ss, a) ==
  LET closed == [i \in 1..Len(ss) |-> [ss[i] EXCEPT !.st = "disconnected"]]
  IN IF a = NoAdmin
     THEN closed
     ELSE Append(closed, [org |-> OrgId(a), st |-> "connecting"])

\* a socket is connected, so the server's pushes reach the page
Connected == \E i \in 1..Len(sockets) : sockets[i].st = "connected"

(* ----------------------------- list pages ------------------------------ *)
\* {} as the credentials state
NoCredentials == [from |-> "none", id |-> NoId]

\* useState(...) of TemplatesPage, AISettingsPage, ChannelSettingsPage and of
\* the tags of ChatPanel
CrudInit ==
  [items |-> [v \in ListViews |-> {}], tags |-> {},
   showForm |-> FALSE, editId |-> NoId,
   editChannel |-> NoId, credentials |-> NoCredentials,
   creating |-> FALSE, setupGuide |-> FALSE, toasts |-> 0]

\* what the backend holds when the page opens
InitStore ==
  [templates |-> {1}, channels |-> {1, 2}, providers |-> {1},
   tags |-> [c \in Convs |-> IF c = 1 THEN {1} ELSE {}],
   ai_auto_reply_enabled |-> TRUE]

PagesInit ==
  /\ crud = CrudInit
  /\ confirms = [accepted |-> 0, declined |-> 0]
  /\ store = InitStore

\* no message has been posted from the page
NoOutbound == [send |-> {}, upload |-> {}]

(* -------------------------- ConversationsPage -------------------------- *)
Filters == {"all", "open", "assigned", "resolved"}

\* status of the conversations the backend holds
ConvStatus == [c \in Convs |-> IF c = 1 THEN "open" ELSE "resolved"]

\* GET /conversations[?status=f]
ListOf(f) == {c \in Convs : f = "all" \/ ConvStatus[c] = f}

ListReq(f) == [filter |-> f, st |-> "sent", items |-> {}]

\* load() of the render with filter f: api.get(...).then(setConversations)
LoadList(ls, f) == ls (+) SetToBag({ListReq(f)})

(* ------------------------------ AiToggle ------------------------------- *)
\* useState(true), useState(true)
AiInit == [enabled |-> TRUE, loading |-> TRUE]

\* a request to /settings/ai-toggle: the GET of the mount, or a PUT of val
ToggleReq(op, val) == [op |-> op, val |-> val, st |-> "sent"]

(* --------------------- ChatPanel: the socket effect -------------------- *)
\* the effect without the cleanup of its previous run
ScopeEffectNoCleanup(sc, old, c) ==
  IF c = NoConv THEN sc
  ELSE [emits |-> Append(sc.emits, <<"join", c>>),
        listeners |-> sc.listeners (+) SetToBag({c})]

\* The effect re-runs: the cleanup of the run that registered a handler for
\* conversation old takes the handler off and emits leave_conversation, then
\* the run for conversation c emits join_conversation and registers its
\* handler; a run without socket or conversation returns early
ScopeEffect(sc, old, c) ==
  LET cleaned == IF old = NoConv THEN sc
                 ELSE [emits |-> Append(sc.emits, <<"leave", old>>),
                       listeners |-> sc.listeners (-) SetToBag({old})]
  IN IF c = NoConv THEN cleaned
     ELSE [emits |-> Append(cleaned.emits, <<"join", c>>),
           listeners |-> cleaned.listeners (+) SetToBag({c})]

(* ------------------------------- Init ---------------------------------- *)
ClientInit ==
  /\ admin = NoAdmin /\ loading = TRUE /\ socket = "none"
  /\ conversationId = NoConv /\ messages = <<>> /\ hasMore = FALSE
  /\ loadingMore = FALSE /\ isInitialLoad = TRUE /\ input = ""
  /\ sending = FALSE /\ uploading = FALSE /\ handler = NoConv
  /\ alertCount = 0 /\ initialScrolls = 0

Init ==
  /\ ClientInit
  /\ href = App /\ unloaded = FALSE
  /\ net = SetToBag({Req("me", NoConv, 0)})
  /\ aux = EmptyBag /\ events = <<>>
  /\ server = InitServer
  /\ used = [select |-> 0, new |-> 0, connect |-> 0, edit |-> 0]
  /\ sockets = SocketEffect(<<>>, NoAdmin) /\ joins = <<>>
  /\ unhandled = FALSE
  /\ route = "conversations" /\ calls = EmptyBag
  /\ PagesInit
  /\ conversation = NoConv /\ outbound = NoOutbound
  /\ filter = "all" /\ conversations = {} /\ lists = EmptyBag
  /\ ai = AiInit /\ toggles = EmptyBag
  /\ emits = <<>> /\ listeners = EmptyBag

(* ----------------------------- AuthProvider ---------------------------- *)
\* AuthProvider renders its children once loading is false
Mounted == ~loading /\ ~unloaded

\* request(): a 401 response assigns window.location.href and throws
RequestHref(status) == IF status = 401 THEN Login ELSE href

FeedVars == <<conversationId, messages, hasMore, loadingMore, isInitialLoad,
              input, sending, uploading, handler, alertCount, initialScrolls>>

\* api.get('/me').then(setAdmin) ... .finally(() => setLoading(false));
\* SocketProvider's effect opens the socket once admin is set
MeResolved(a) ==
  /\ ~unloaded
  /\ \E r \in InFlight :
       /\ r.kind = "me"
       /\ net' = Del(net, r)
  /\ admin' = a
  /\ socket' = "open"
  /\ loading' = FALSE
  /\ UNCHANGED <<href, unloaded, aux, events, server, used>>
  /\ UNCHANGED FeedVars
  /\ sockets' = SocketEffect(sockets, a)
  /\ UNCHANGED <<joins, unhandled>>
  /\ UNCHANGED PageVars
  /\ lists' = IF route = "conversations" THEN LoadList(lists, filter) ELSE lists
  /\ UNCHANGED <<conversation, outbound, filter, conversations, ToggleVars,
                 ScopeVars>>

\* the failure path of the identity fetch with a second attempt
MeRejectedRetries(status) ==
  /\ ~unloaded
  /\ \E r \in InFlight :
       /\ r.kind = "me"
       /\ net' = Add(Del(net, r), Req("me", NoConv, 0))
  /\ href' = Login
  /\ loading' = FALSE
  /\ UNCHANGED <<admin, socket, unloaded, aux, events, server, used>>
  /\ UNCHANGED FeedVars
  /\ UNCHANGED <<sockets, joins, unhandled>>
  /\ UNCHANGED PageVars
  /\ UNCHANGED MoreVars

\* ... .catch(() => { window.location.href = '/admin/login' })
\*     .finally(() => setLoading(false))
MeRejected(status) ==
  /\ ~unloaded
  /\ \E r \in InFlight :
       /\ r.kind = "me"
       /\ net' = Del(net, r)
  /\ href' = Login
  /\ loading' = FALSE
  /\ UNCHANGED <<admin, socket, unloaded, aux, events, server, used>>
  /\ UNCHANGED FeedVars
  /\ UNCHANGED <<sockets, joins, unhandled>>
  /\ UNCHANGED PageVars
  /\ UNCHANGED MoreVars

\* The navigation started by assigning location.href replaces the document:
\* the script's state is gone and no response reaches it any more
Unload ==
  /\ href = Login /\ ~unloaded
  /\ unloaded' = TRUE
  /\ admin' = NoAdmin /\ loading' = TRUE /\ socket' = "none"
  /\ conversationId' = NoConv /\ messages' = <<>> /\ hasMore' = FALSE
  /\ loadingMore' = FALSE /\ isInitialLoad' = TRUE /\ input' = ""
  /\ sending' = FALSE /\ uploading' = FALSE /\ handler' = NoConv
  /\ alertCount' = 0 /\ initialScrolls' = 0
  /\ net' = EmptyBag /\ aux' = EmptyBag /\ events' = <<>>
  /\ sockets' = [i \in 1..Len(sockets) |->
                   [sockets[i] EXCEPT !.st = "disconnected"]]
  /\ unhandled' = FALSE
  /\ crud' = CrudInit /\ calls' = EmptyBag
  /\ confirms' = [accepted |-> 0, declined |-> 0]
  /\ conversation' = NoConv
  /\ filter' = "all" /\ conversations' = {} /\ lists' = EmptyBag
  /\ ai' = AiInit /\ toggles' = EmptyBag
  /\ listeners' = EmptyBag
  /\ UNCHANGED <<href, server, used, joins, route, store, outbound, emits>>

\* s.on('connect', ...): socket i gets connected, for the first time or after
\* a reconnect, and announces the organisation of the identity it was opened for
SocketConnect(i) ==
  /\ ~unloaded
  /\ i \in 1..Len(sockets) /\ sockets[i].st = "connecting"
  /\ used.connect < MaxConnect
  /\ used' = [used EXCEPT !.connect = @ + 1]
  /\ sockets' = [sockets EXCEPT ![i].st = "connected"]
  /\ joins' = Append(joins, sockets[i].org)
  /\ UNCHANGED <<admin, loading, href, unloaded, socket, net, aux, events,
                 server, unhandled>>
  /\ UNCHANGED FeedVars
  /\ UNCHANGED PageVars
  /\ UNCHANGED MoreVars

\* s.on('disconnect', ...): the transport of socket i is lost; the socket stays
\* open and connects again
SocketDrop(i) ==
  /\ ~unloaded
  /\ i \in 1..Len(sockets) /\ sockets[i].st = "connected"
  /\ sockets' = [sockets EXCEPT ![i].st = "connecting"]
  /\ UNCHANGED <<admin, loading, href, unloaded, socket, net, aux, events,
                 server, used, joins, unhandled>>
  /\ UNCHANGED FeedVars
  /\ UNCHANGED PageVars
  /\ UNCHANGED MoreVars

(* ------------------------------ ChatPanel ------------------------------ *)
\* useEffect(..., [messages]): runs after a render in which messages changed
ScrollEffect(new) ==
  IF isInitialLoad /\ Len(new) > 0
  THEN /\ isInitialLoad' = FALSE
       /\ initialScrolls' = initialScrolls + 1
  ELSE UNCHANGED <<isInitialLoad, initialScrolls>>

\* loadMessages without the reset of has-more
LoadMessagesKeepsHasMore(c, n, a) ==
  IF c = NoConv
  THEN /\ net' = n /\ aux' = a
       /\ UNCHANGED <<hasMore, isInitialLoad>>
  ELSE /\ UNCHANGED hasMore
       /\ isInitialLoad' = TRUE
       /\ net' = Add(n, Req("initial", c, 0))
       /\ aux' = a (+) SetToBag({<<"detail", c>>, <<"read", c>>})

\* loadMessages of the render with conversationId = c; n and a are the
\* requests in flight once the caller's own changes are applied
LoadMessages(c, n, a) ==
  IF c = NoConv
  THEN /\ net' = n /\ aux' = a
       /\ UNCHANGED <<hasMore, isInitialLoad>>
  ELSE /\ hasMore' = FALSE
       /\ isInitialLoad' = TRUE
       /\ net' = Add(n, Req("initial", c, 0))
       /\ aux' = a (+) SetToBag({<<"detail", c>>, <<"read", c>>})

\* loadTags of the render with conversationId = c
LoadTags(c) == IF c = NoConv THEN EmptyBag ELSE SetToBag({<<"tags", c>>})

\* The route changes the conversationId prop: the load effect and the socket
\* effect (cleanup of the old handler, join, registration of the new) run
Select(c) ==
  /\ Mounted /\ route = "conversations"
  /\ c # conversationId
  /\ used.select < MaxSelect
  /\ used' = [used EXCEPT !.select = @ + 1]
  /\ conversationId' = c
  /\ LoadMessages(c, net, aux (+) LoadTags(c))
  /\ handler' = IF socket = "open" THEN c ELSE NoConv
  /\ LET sc == ScopeEffect([emits |-> emits, listeners |-> listeners],
                           handler, IF socket = "open" THEN c ELSE NoConv)
     IN emits' = sc.emits /\ listeners' = sc.listeners
  /\ initialScrolls' = 0
  /\ UNCHANGED <<admin, loading, href, unloaded, socket, messages, loadingMore,
                 input, sending, uploading, alertCount, events, server>>
  /\ UNCHANGED <<sockets, joins, unhandled>>
  /\ UNCHANGED PageVars
  /\ UNCHANGED <<conversation, outbound, ListVars, ToggleVars>>

\* loadOlderMessages without the test of the busy flag
LoadOlderMessagesNotBusyGuarded ==
  /\ Mounted
  /\ IF conversationId = NoConv \/ ~hasMore \/ Len(messages) = 0
     THEN UNCHANGED vars
     ELSE /\ loadingMore' = TRUE
          /\ net' = Add(net, Req("older", conversationId, messages[1]))
          /\ UNCHANGED <<admin, loading, href, unloaded, socket, conversationId,
                         messages, hasMore, isInitialLoad, input, sending,
                         uploading, handler, alertCount, initialScrolls, aux,
                         events, server, used>>
          /\ UNCHANGED <<sockets, joins, unhandled>>
          /\ UNCHANGED PageVars
  /\ UNCHANGED MoreVars

\* loadOlderMessages up to its await
LoadOlderMessages ==
  /\ Mounted
  /\ IF conversationId = NoConv \/ loadingMore \/ ~hasMore \/ Len(messages) = 0
     THEN UNCHANGED vars
     ELSE /\ loadingMore' = TRUE
          /\ net' = Add(net, Req("older", conversationId, messages[1]))
          /\ UNCHANGED <<admin, loading, href, unloaded, socket, conversationId,
                         messages, hasMore, isInitialLoad, input, sending,
                         uploading, handler, alertCount, initialScrolls, aux,
                         events, server, used>>
          /\ UNCHANGED <<sockets, joins, unhandled>>
          /\ UNCHANGED PageVars
  /\ UNCHANGED MoreVars

\* the merge without the test for the id
MergeNewestAlwaysAppends(w, m) == Append(w, m)

\* setMessages(prev => prev.some(m => m.id === newMsg.id) ? prev : [...prev, newMsg])
MergeNewest(w, m) == IF \E i \in 1..Len(w) : w[i] = m THEN w ELSE Append(w, m)

\* onChange of the composer; the text is edited between sends
TypeInput(t) ==
  /\ Mounted /\ conversationId # NoConv
  /\ ~sending
  /\ t # input
  /\ input' = t
  /\ UNCHANGED <<admin, loading, href, unloaded, socket, conversationId,
                 messages, hasMore, loadingMore, isInitialLoad, sending,
                 uploading, handler, alertCount, initialScrolls, net, aux,
                 events, server, used>>
  /\ UNCHANGED <<sockets, joins, unhandled>>
  /\ UNCHANGED PageVars
  /\ UNCHANGED MoreVars

\* handleSend up to its first await
HandleSend ==
  /\ Mounted /\ conversationId # NoConv
  /\ Trim(input) # "" /\ ~sending
  /\ used.new < MaxNew
  /\ used' = [used EXCEPT !.new = @ + 1]
  /\ sending' = TRUE
  /\ net' = Add(net, Req("send", conversationId, 0))
  /\ UNCHANGED <<admin, loading, href, unloaded, socket, conversationId,
                 messages, hasMore, loadingMore, isInitialLoad, input,
                 uploading, handler, alertCount, initialScrolls, aux, events,
                 server>>
  /\ UNCHANGED <<sockets, joins, unhandled>>
  /\ UNCHANGED PageVars
  /\ UNCHANGED MoreVars

\* handleFileUpload with a size limit that excludes the boundary
HandleFileUploadBelowLimit(f) ==
  /\ Mounted /\ conversationId # NoConv
  /\ ~uploading
  /\ used.new < MaxNew
  /\ used' = [used EXCEPT !.new = @ + 1]
  /\ IF f.type \notin Allowed \/ f.size >= MaxFileSize
     THEN /\ alertCount' = alertCount + 1
          /\ UNCHANGED <<uploading, net>>
     ELSE /\ uploading' = TRUE
          /\ net' = Add(net, Req("upload", conversationId, 0))
          /\ UNCHANGED alertCount
  /\ UNCHANGED <<admin, loading, href, unloaded, socket, conversationId,
                 messages, hasMore, loadingMore, isInitialLoad, input, sending,
                 handler, initialScrolls, aux, events, server>>
  /\ UNCHANGED <<sockets, joins, unhandled>>
  /\ UNCHANGED PageVars
  /\ UNCHANGED MoreVars

\* handleFileUpload up to its await: the type and size checks, then the fetch
HandleFileUpload(f) ==
  /\ Mounted /\ conversationId # NoConv
  /\ ~uploading
  /\ used.new < MaxNew
  /\ used' = [used EXCEPT !.new = @ + 1]
  /\ IF f.type \notin Allowed \/ f.size > MaxFileSize
     THEN /\ alertCount' = alertCount + 1
          /\ UNCHANGED <<uploading, net>>
     ELSE /\ uploading' = TRUE
          /\ net' = Add(net, Req("upload", conversationId, 0))
          /\ UNCHANGED alertCount
  /\ UNCHANGED <<admin, loading, href, unloaded, socket, conversationId,
                 messages, hasMore, loadingMore, isInitialLoad, input, sending,
                 handler, initialScrolls, aux, events, server>>
  /\ UNCHANGED <<sockets, joins, unhandled>>
  /\ UNCHANGED PageVars
  /\ UNCHANGED MoreVars

\* the new_message handler without the test of the event's conversation
OnNewMessageAnyConversation ==
  /\ Mounted
  /\ events # <<>>
  /\ events' = Tail(events)
  /\ IF handler # NoConv
     THEN /\ net' = Add(net, Req("newest", handler, 0))
          /\ aux' = aux (+) SetToBag({<<"detail", handler>>,
                                       <<"read", handler>>})
     ELSE UNCHANGED <<net, aux>>
  /\ lists' = IF route = "conversations" THEN LoadList(lists, filter) ELSE lists
  /\ UNCHANGED <<admin, loading, href, unloaded, socket, server, used>>
  /\ UNCHANGED FeedVars
  /\ UNCHANGED <<sockets, joins, unhandled>>
  /\ UNCHANGED PageVars
  /\ UNCHANGED <<conversation, outbound, filter, conversations, ToggleVars,
                 ScopeVars>>

\* the new_message handler without the read marking
OnNewMessageNoRead ==
  /\ Mounted
  /\ events # <<>>
  /\ events' = Tail(events)
  /\ IF handler # NoConv /\ Head(events) = handler
     THEN /\ net' = Add(net, Req("newest", handler, 0))
          /\ aux' = aux (+) SetToBag({<<"detail", handler>>})
     ELSE UNCHANGED <<net, aux>>
  /\ lists' = IF route = "conversations" THEN LoadList(lists, filter) ELSE lists
  /\ UNCHANGED <<admin, loading, href, unloaded, socket, server, used>>
  /\ UNCHANGED FeedVars
  /\ UNCHANGED <<sockets, joins, unhandled>>
  /\ UNCHANGED PageVars
  /\ UNCHANGED <<conversation, outbound, filter, conversations, ToggleVars,
                 ScopeVars>>

\* The socket delivers a new_message event: ChatPanel's registered handler
\* runs, then the handler of ConversationsPage reloads the list
OnNewMessage ==
  /\ Mounted
  /\ events # <<>>
  /\ events' = Tail(events)
  /\ IF handler # NoConv /\ Head(events) = handler
     THEN /\ net' = Add(net, Req("newest", handler, 0))
          /\ aux' = aux (+) SetToBag({<<"detail", handler>>,
                                       <<"read", handler>>})
     ELSE UNCHANGED <<net, aux>>
  /\ lists' = IF route = "conversations" THEN LoadList(lists, filter) ELSE lists
  /\ UNCHANGED <<admin, loading, href, unloaded, socket, server, used>>
  /\ UNCHANGED FeedVars
  /\ UNCHANGED <<sockets, joins, unhandled>>
  /\ UNCHANGED PageVars
  /\ UNCHANGED <<conversation, outbound, filter, conversations, ToggleVars,
                 ScopeVars>>

(* --------------------- the backend answers a request ------------------- *)
\* A contact writes into conversation c; the server pushes new_message
CreateMessage(c) ==
  /\ used.new < MaxNew
  /\ used' = [used EXCEPT !.new = @ + 1]
  /\ server' = Append(server, c)
  /\ events' = IF Connected THEN Append(events, c) ELSE events
  /\ UNCHANGED <<admin, loading, href, unloaded, socket, net, aux>>
  /\ UNCHANGED FeedVars
  /\ UNCHANGED <<sockets, joins, unhandled>>
  /\ UNCHANGED PageVars
  /\ UNCHANGED MoreVars

\* The backend handles a messages GET: the answer is fixed at this moment
ServeGet(r) ==
  /\ r \in InFlight /\ r.st = "sent"
  /\ r.kind \in {"initial", "older", "newest", "sendfetch"}
  /\ LET n == IF r.kind \in {"initial", "older"} THEN PageSize ELSE 1
         a == [r EXCEPT !.st = "ok", !.page = Page(r.conv, n, r.before),
                        !.total = Len(IdsOf(r.conv, 0))]
     IN net' = Add(Del(net, r), a)
  /\ UNCHANGED <<admin, loading, href, unloaded, socket, aux, events, server,
                 used>>
  /\ UNCHANGED FeedVars
  /\ UNCHANGED <<sockets, joins, unhandled>>
  /\ UNCHANGED PageVars
  /\ UNCHANGED MoreVars

\* The backend handles the POST of a send or an upload: it stores the message
ServePost(r) ==
  /\ r \in InFlight /\ r.st = "sent"
  /\ r.kind \in {"send", "upload"}
  /\ server' = Append(server, r.conv)
  /\ outbound' = [outbound EXCEPT ![r.kind] = @ \cup {Len(server) + 1}]
  /\ net' = Add(Del(net, r), [r EXCEPT !.st = "ok"])
  /\ UNCHANGED <<admin, loading, href, unloaded, socket, aux, events, used>>
  /\ UNCHANGED FeedVars
  /\ UNCHANGED <<sockets, joins, unhandled>>
  /\ UNCHANGED PageVars
  /\ UNCHANGED <<conversation, ListVars, ToggleVars, ScopeVars>>

(* ------------------- a response reaches its continuation --------------- *)
\* loadMessages: .then((data) => { setMessages(...); setHasMore(...) })
InitialLoaded(r) ==
  /\ Mounted
  /\ r \in InFlight /\ r.kind = "initial" /\ r.st = "ok"
  /\ net' = Del(net, r)
  /\ messages' = r.page
  /\ hasMore' = (Len(r.page) < r.total)
  /\ ScrollEffect(r.page)
  /\ UNCHANGED <<admin, loading, href, unloaded, socket, conversationId,
                 loadingMore, input, sending, uploading, handler, alertCount,
                 aux, events, server, used>>
  /\ UNCHANGED <<sockets, joins, unhandled>>
  /\ UNCHANGED PageVars
  /\ UNCHANGED MoreVars

\* has-more after a backfill with the comparison off by one
HasMoreAfterOlderStrict(page) == Len(page) > PageSize

\* hasMore after a backfill that returned page
HasMoreAfterOlder(page) == Len(page) >= PageSize

\* the backfill's continuation replacing the window by the page it fetched
OlderLoadedReplacesWindow(r) ==
  /\ Mounted
  /\ r \in InFlight /\ r.kind = "older" /\ r.st = "ok"
  /\ net' = Del(net, r)
  /\ IF Len(r.page) = 0
     THEN /\ hasMore' = FALSE
          /\ UNCHANGED <<messages, isInitialLoad, initialScrolls>>
     ELSE /\ messages' = r.page
          /\ hasMore' = HasMoreAfterOlder(r.page)
          /\ ScrollEffect(r.page)
  /\ loadingMore' = FALSE
  /\ UNCHANGED <<admin, loading, href, unloaded, socket, conversationId, input,
                 sending, uploading, handler, alertCount, aux, events, server,
                 used>>
  /\ UNCHANGED <<sockets, joins, unhandled>>
  /\ UNCHANGED PageVars
  /\ UNCHANGED MoreVars

\* loadOlderMessages after its await, the request having succeeded
OlderLoaded(r) ==
  /\ Mounted
  /\ r \in InFlight /\ r.kind = "older" /\ r.st = "ok"
  /\ net' = Del(net, r)
  /\ IF Len(r.page) = 0
     THEN /\ hasMore' = FALSE
          /\ UNCHANGED <<messages, isInitialLoad, initialScrolls>>
     ELSE /\ messages' = r.page \o messages
          /\ hasMore' = HasMoreAfterOlder(r.page)
          /\ ScrollEffect(r.page \o messages)
  /\ loadingMore' = FALSE
  /\ UNCHANGED <<admin, loading, href, unloaded, socket, conversationId, input,
                 sending, uploading, handler, alertCount, aux, events, server,
                 used>>
  /\ UNCHANGED <<sockets, joins, unhandled>>
  /\ UNCHANGED PageVars
  /\ UNCHANGED MoreVars

\* the new_message handler's .then((resp) => ...)
NewestLoaded(r) ==
  /\ Mounted
  /\ r \in InFlight /\ r.kind = "newest" /\ r.st = "ok"
  /\ net' = Del(net, r)
  /\ IF Len(r.page) > 0 /\ MergeNewest(messages, r.page[1]) # messages
     THEN /\ messages' = MergeNewest(messages, r.page[1])
          /\ ScrollEffect(MergeNewest(messages, r.page[1]))
     ELSE UNCHANGED <<messages, isInitialLoad, initialScrolls>>
  /\ UNCHANGED <<admin, loading, href, unloaded, socket, conversationId,
                 hasMore, loadingMore, input, sending, uploading, handler,
                 alertCount, aux, events, server, used>>
  /\ UNCHANGED <<sockets, joins, unhandled>>
  /\ UNCHANGED PageVars
  /\ UNCHANGED MoreVars

\* handleSend after the POST resolved: setInput(''), then the follow-up GET
SendPosted(r) ==
  /\ Mounted
  /\ r \in InFlight /\ r.kind = "send" /\ r.st = "ok"
  /\ input' = ""
  /\ net' = Add(Del(net, r), Req("sendfetch", r.conv, 0))
  /\ UNCHANGED <<admin, loading, href, unloaded, socket, conversationId,
                 messages, hasMore, loadingMore, isInitialLoad, sending,
                 uploading, handler, alertCount, initialScrolls, aux, events,
                 server, used>>
  /\ UNCHANGED <<sockets, joins, unhandled>>
  /\ UNCHANGED PageVars
  /\ UNCHANGED MoreVars

\* handleSend after the follow-up GET resolved: the merge, then
\* onConversationUpdated(), the load() of ConversationsPage
SendFetched(r) ==
  /\ Mounted
  /\ r \in InFlight /\ r.kind = "sendfetch" /\ r.st = "ok"
  /\ net' = Del(net, r)
  /\ IF Len(r.page) > 0 /\ MergeNewest(messages, r.page[1]) # messages
     THEN /\ messages' = MergeNewest(messages, r.page[1])
          /\ ScrollEffect(MergeNewest(messages, r.page[1]))
     ELSE UNCHANGED <<messages, isInitialLoad, initialScrolls>>
  /\ lists' = LoadList(lists, filter)
  /\ sending' = FALSE
  /\ UNCHANGED <<admin, loading, href, unloaded, socket, conversationId,
                 hasMore, loadingMore, input, uploading, handler, alertCount,
                 aux, events, server, used>>
  /\ UNCHANGED <<sockets, joins, unhandled>>
  /\ UNCHANGED PageVars
  /\ UNCHANGED <<conversation, outbound, filter, conversations, ToggleVars,
                 ScopeVars>>

\* handleFileUpload after the upload resolved with a JSON body and resp.ok:
\* the optional warning, then loadMessages() of the render that started it
Uploaded(r, warning) ==
  /\ Mounted
  /\ r \in InFlight /\ r.kind = "upload" /\ r.st = "ok"
  /\ alertCount' = IF warning THEN alertCount + 1 ELSE alertCount
  /\ LoadMessages(r.conv, Del(net, r), aux)
  /\ uploading' = FALSE
  /\ UNCHANGED <<admin, loading, href, unloaded, socket, conversationId,
                 messages, loadingMore, input, sending, handler,
                 initialScrolls, events, server, used>>
  /\ UNCHANGED <<sockets, joins, unhandled>>
  /\ UNCHANGED PageVars
  /\ UNCHANGED MoreVars

\* the failure path of a request with the backfill flag cleared only on success
RejectedKeepsBusy(r, status) ==
  /\ Mounted
  /\ r \in InFlight /\ r.st = "sent"
  /\ r.kind \in {"initial", "older", "newest", "send", "sendfetch"}
  /\ net' = Del(net, r)
  /\ href' = RequestHref(status)
  /\ sending' = IF r.kind \in {"send", "sendfetch"} THEN FALSE ELSE sending
  /\ alertCount' = IF r.kind \in {"send", "sendfetch"}
                   THEN alertCount + 1 ELSE alertCount
  /\ UNCHANGED <<admin, loading, unloaded, socket, conversationId, messages,
                 hasMore, loadingMore, isInitialLoad, input, uploading, handler,
                 initialScrolls, aux, events, server, used>>
  /\ unhandled' = (unhandled \/ r.kind = "initial")
  /\ UNCHANGED <<sockets, joins>>
  /\ UNCHANGED PageVars
  /\ UNCHANGED MoreVars

\* the failure path of a request with the composer cleared in every case
RejectedClearsInput(r, status) ==
  /\ Mounted
  /\ r \in InFlight /\ r.st = "sent"
  /\ r.kind \in {"initial", "older", "newest", "send", "sendfetch"}
  /\ net' = Del(net, r)
  /\ href' = RequestHref(status)
  /\ loadingMore' = IF r.kind = "older" THEN FALSE ELSE loadingMore
  /\ sending' = IF r.kind \in {"send", "sendfetch"} THEN FALSE ELSE sending
  /\ alertCount' = IF r.kind \in {"send", "sendfetch"}
                   THEN alertCount + 1 ELSE alertCount
  /\ input' = IF r.kind \in {"send", "sendfetch"} THEN "" ELSE input
  /\ UNCHANGED <<admin, loading, unloaded, socket, conversationId, messages,
                 hasMore, isInitialLoad, uploading, handler,
                 initialScrolls, aux, events, server, used>>
  /\ unhandled' = (unhandled \/ r.kind = "initial")
  /\ UNCHANGED <<sockets, joins>>
  /\ UNCHANGED PageVars
  /\ UNCHANGED MoreVars

\* A request made through request() fails: 401 redirects, then it throws
Rejected(r, status) ==
  /\ Mounted
  /\ r \in InFlight /\ r.st = "sent"
  /\ r.kind \in {"initial", "older", "newest", "send", "sendfetch"}
  /\ net' = Del(net, r)
  /\ href' = RequestHref(status)
  /\ loadingMore' = IF r.kind = "older" THEN FALSE ELSE loadingMore
  /\ sending' = IF r.kind \in {"send", "sendfetch"} THEN FALSE ELSE sending
  /\ alertCount' = IF r.kind \in {"send", "sendfetch"}
                   THEN alertCount + 1 ELSE alertCount
  /\ UNCHANGED <<admin, loading, unloaded, socket, conversationId, messages,
                 hasMore, isInitialLoad, input, uploading, handler,
                 initialScrolls, aux, events, server, used>>
  /\ unhandled' = (unhandled \/ r.kind = "initial")
  /\ UNCHANGED <<sockets, joins>>
  /\ UNCHANGED PageVars
  /\ UNCHANGED MoreVars

\* The upload's fetch fails, or answers without JSON or with !resp.ok
UploadFailed(r) ==
  /\ Mounted
  /\ r \in InFlight /\ r.kind = "upload" /\ r.st = "sent"
  /\ net' = Del(net, r)
  /\ alertCount' = alertCount + 1
  /\ uploading' = FALSE
  /\ UNCHANGED <<admin, loading, href, unloaded, socket, conversationId,
                 messages, hasMore, loadingMore, isInitialLoad, input, sending,
                 handler, initialScrolls, aux, events, server, used>>
  /\ UNCHANGED <<sockets, joins, unhandled>>
  /\ UNCHANGED PageVars
  /\ UNCHANGED MoreVars

(* ------------------------ the conversation summary --------------------- *)
\* api.get(`/conversations/${c}`).then(setConversation): the answer arrives
DetailLoaded(c) ==
  /\ Mounted
  /\ <<"detail", c>> \in BagToSet(aux)
  /\ aux' = aux (-) SetToBag({<<"detail", c>>})
  /\ conversation' = c
  /\ UNCHANGED <<admin, loading, href, unloaded, socket, net, events, server,
                 used, sockets, joins, unhandled>>
  /\ UNCHANGED FeedVars
  /\ UNCHANGED PageVars
  /\ UNCHANGED <<outbound, ListVars, ToggleVars, ScopeVars>>

(* ----------------------------- read marking --------------------------- *)
\* api.post(`/conversations/${c}/read`) resolves: nothing is attached to it
ReadDone(c) ==
  /\ Mounted
  /\ <<"read", c>> \in BagToSet(aux)
  /\ aux' = aux (-) SetToBag({<<"read", c>>})
  /\ UNCHANGED <<admin, loading, href, unloaded, socket, net, events, server,
                 used, sockets, joins, unhandled>>
  /\ UNCHANGED FeedVars
  /\ UNCHANGED PageVars
  /\ UNCHANGED MoreVars

\* api.post(`/conversations/${c}/read`) fails: request() redirects on 401 and
\* throws, .catch(() => {}) swallows the error
ReadRejected(c, status) ==
  /\ Mounted
  /\ <<"read", c>> \in BagToSet(aux)
  /\ aux' = aux (-) SetToBag({<<"read", c>>})
  /\ href' = RequestHref(status)
  /\ UNCHANGED <<admin, loading, unloaded, socket, net, events, server,
                 used, sockets, joins, unhandled>>
  /\ UNCHANGED FeedVars
  /\ UNCHANGED PageVars
  /\ UNCHANGED MoreVars

(* ------------------ a response with a status that is not ok ------------ *)
\* st of a request the backend has answered with status s
Code(s) == IF s = 401 THEN "401" ELSE "500"
StatusOf(st) == IF st = "401" THEN 401 ELSE 500

\* The backend answers request r with status s
ServeStatus(r, s) ==
  /\ r \in InFlight /\ r.st = "sent"
  /\ r.kind \in {"initial", "older", "newest", "send", "sendfetch", "upload"}
  /\ net' = Add(Del(net, r), [r EXCEPT !.st = Code(s)])
  /\ UNCHANGED <<admin, loading, href, unloaded, socket, aux, events, server,
                 used, sockets, joins, unhandled>>
  /\ UNCHANGED FeedVars
  /\ UNCHANGED PageVars
  /\ UNCHANGED MoreVars

\* request() reads the answer of r: status 401 redirects and throws, another
\* status that is not ok throws; then the caller's failure path
Threw(r) ==
  /\ Mounted
  /\ r \in InFlight /\ r.st \in {"401", "500"}
  /\ r.kind \in {"initial", "older", "newest", "send", "sendfetch"}
  /\ net' = Del(net, r)
  /\ href' = RequestHref(StatusOf(r.st))
  /\ loadingMore' = IF r.kind = "older" THEN FALSE ELSE loadingMore
  /\ sending' = IF r.kind \in {"send", "sendfetch"} THEN FALSE ELSE sending
  /\ alertCount' = IF r.kind \in {"send", "sendfetch"}
                   THEN alertCount + 1 ELSE alertCount
  /\ unhandled' = (unhandled \/ r.kind = "initial")
  /\ UNCHANGED <<admin, loading, unloaded, socket, conversationId, messages,
                 hasMore, isInitialLoad, input, uploading, handler,
                 initialScrolls, aux, events, server, used, sockets, joins>>
  /\ UNCHANGED PageVars
  /\ UNCHANGED MoreVars

\* handleFileUpload reads the answer of its fetch: without JSON or with
\* !resp.ok it throws into its catch, whatever the status
UploadAnswered(r) ==
  /\ Mounted
  /\ r \in InFlight /\ r.kind = "upload" /\ r.st \in {"401", "500"}
  /\ net' = Del(net, r)
  /\ alertCount' = alertCount + 1
  /\ uploading' = FALSE
  /\ UNCHANGED <<admin, loading, href, unloaded, socket, conversationId,
                 messages, hasMore, loadingMore, isInitialLoad, input, sending,
                 handler, initialScrolls, aux, events, server, used, sockets,
                 joins, unhandled>>
  /\ UNCHANGED PageVars
  /\ UNCHANGED MoreVars

(* ------------------------- list pages: requests ------------------------ *)
SessionVars == <<admin, loading, href, unloaded, socket, net, events, server,
                 sockets, joins, route>>

Call(view, op, id, c, creds) ==
  [view |-> view, op |-> op, id |-> id, conv |-> c, creds |-> creds,
   st |-> "sent", items |-> {}]

Calling == BagToSet(calls)

\* load() of a list page: api.get(...).then(set...)
Load(cs, v) == Add(cs, Call(v, "list", NoId, NoConv, NoCredentials))

\* a user action on a list page or on the tags is counted
Edits == [used EXCEPT !.edit = @ + 1]

\* The backend handles a request of a list page or of the tags
ServeCall(r) ==
  /\ r \in Calling /\ r.st = "sent"
  /\ IF r.view = "tags"
     THEN /\ store' = [store EXCEPT !.tags[r.conv] =
                         IF r.op = "create" THEN @ \cup {r.id} ELSE @ \ {r.id}]
          /\ calls' = Add(Del(calls, r), [r EXCEPT !.st = "ok"])
     ELSE CASE r.op = "list" ->
                 /\ calls' = Add(Del(calls, r),
                                 [r EXCEPT !.st = "ok", !.items = store[r.view]])
                 /\ UNCHANGED store
            [] r.op = "create" ->
                 /\ store[r.view] # Ids
                 /\ LET new == CHOOSE i \in Ids : i \notin store[r.view]
                    IN /\ store' = [store EXCEPT ![r.view] = @ \cup {new}]
                       /\ calls' = Add(Del(calls, r),
                                       [r EXCEPT !.st = "ok", !.id = new])
            [] r.op = "delete" ->
                 /\ store' = [store EXCEPT ![r.view] = @ \ {r.id}]
                 /\ calls' = Add(Del(calls, r), [r EXCEPT !.st = "ok"])
            [] r.op = "getcreds" ->
                 /\ calls' = Add(Del(calls, r),
                                 [r EXCEPT !.st = "ok",
                                    !.creds = [from |-> "fetched", id |-> r.id]])
                 /\ UNCHANGED store
            [] OTHER ->
                 /\ calls' = Add(Del(calls, r), [r EXCEPT !.st = "ok"])
                 /\ UNCHANGED store
  /\ UNCHANGED <<crud, confirms, used, aux, unhandled>>
  /\ UNCHANGED SessionVars
  /\ UNCHANGED FeedVars
  /\ UNCHANGED MoreVars

(* --------------- TemplatesPage and AISettingsPage (v) ------------------ *)
\* the "+ New" button of page v
ToggleForm(v) ==
  /\ Mounted /\ route = v /\ v \in {"templates", "providers"}
  /\ crud' = [crud EXCEPT !.showForm = ~@, !.editId = NoId]
  /\ UNCHANGED <<calls, confirms, store, used, aux, unhandled>>
  /\ UNCHANGED SessionVars
  /\ UNCHANGED FeedVars
  /\ UNCHANGED MoreVars

\* handleEdit(t)
HandleEdit(v, id) ==
  /\ Mounted /\ route = v /\ v \in {"templates", "providers"}
  /\ id \in crud.items[v] /\ crud.editId # id
  /\ crud' = [crud EXCEPT !.showForm = TRUE, !.editId = id]
  /\ UNCHANGED <<calls, confirms, store, used, aux, unhandled>>
  /\ UNCHANGED SessionVars
  /\ UNCHANGED FeedVars
  /\ UNCHANGED MoreVars

\* handleSubmit up to its await: PUT when a record is edited, POST otherwise
HandleSubmit(v) ==
  /\ Mounted /\ route = v /\ v \in {"templates", "providers"}
  /\ crud.showForm
  /\ used.edit < MaxEdit /\ used' = Edits
  /\ calls' = Add(calls, Call(v, IF crud.editId # NoId THEN "update" ELSE "create",
                              crud.editId, NoConv, NoCredentials))
  /\ UNCHANGED <<crud, confirms, store, aux, unhandled>>
  /\ UNCHANGED SessionVars
  /\ UNCHANGED FeedVars
  /\ UNCHANGED MoreVars

\* handleSubmit after its await: the form is reset, then load()
SubmitDone(r) ==
  /\ Mounted
  /\ r \in Calling /\ r.st = "ok" /\ r.op \in {"create", "update"}
  /\ r.view \in {"templates", "providers"}
  /\ crud' = [crud EXCEPT !.showForm = FALSE, !.editId = NoId,
                          !.toasts = IF r.view = "providers" THEN @ + 1 ELSE @]
  /\ calls' = Load(Del(calls, r), r.view)
  /\ UNCHANGED <<confirms, store, used, aux, unhandled>>
  /\ UNCHANGED SessionVars
  /\ UNCHANGED FeedVars
  /\ UNCHANGED MoreVars

\* handleSetActive up to its await
HandleSetActive(id) ==
  /\ Mounted /\ route = "providers"
  /\ id \in crud.items["providers"]
  /\ used.edit < MaxEdit /\ used' = Edits
  /\ calls' = Add(calls, Call("providers", "activate", id, NoConv, NoCredentials))
  /\ UNCHANGED <<crud, confirms, store, aux, unhandled>>
  /\ UNCHANGED SessionVars
  /\ UNCHANGED FeedVars
  /\ UNCHANGED MoreVars

\* handleDelete of a list page up to its await: confirm(), then the DELETE
HandleDelete(v, id, ok) ==
  /\ Mounted /\ route = v /\ v \in ListViews
  /\ id \in crud.items[v]
  /\ used.edit < MaxEdit /\ used' = Edits
  /\ IF ok
     THEN /\ confirms' = [confirms EXCEPT !.accepted = @ + 1]
          /\ calls' = Add(calls, Call(v, "delete", id, NoConv, NoCredentials))
     ELSE /\ confirms' = [confirms EXCEPT !.declined = @ + 1]
          /\ UNCHANGED calls
  /\ UNCHANGED <<crud, store, aux, unhandled>>
  /\ UNCHANGED SessionVars
  /\ UNCHANGED FeedVars
  /\ UNCHANGED MoreVars

\* the continuation of a mutation that patches the list in place of load()
MutationDonePatchesList(r) ==
  /\ Mounted
  /\ r \in Calling /\ r.st = "ok" /\ r.op \in {"delete", "activate"}
  /\ r.view \in ListViews
  /\ crud' = [crud EXCEPT !.toasts = IF r.view = "templates" THEN @ ELSE @ + 1,
                          !.items[r.view] = IF r.op = "delete" THEN @ \ {r.id}
                                            ELSE @]
  /\ calls' = Del(calls, r)
  /\ UNCHANGED <<confirms, store, used, aux, unhandled>>
  /\ UNCHANGED SessionVars
  /\ UNCHANGED FeedVars
  /\ UNCHANGED MoreVars

\* handleDelete and handleSetActive after their await: the toast, then load()
MutationDone(r) ==
  /\ Mounted
  /\ r \in Calling /\ r.st = "ok" /\ r.op \in {"delete", "activate"}
  /\ r.view \in ListViews
  /\ crud' = [crud EXCEPT !.toasts = IF r.view = "templates" THEN @ ELSE @ + 1]
  /\ calls' = Load(Del(calls, r), r.view)
  /\ UNCHANGED <<confirms, store, used, aux, unhandled>>
  /\ UNCHANGED SessionVars
  /\ UNCHANGED FeedVars
  /\ UNCHANGED MoreVars

\* load(): .then(setTemplates), .then(setProviders), .then(setChannels)
ListLoaded(r) ==
  /\ Mounted
  /\ r \in Calling /\ r.st = "ok" /\ r.op = "list"
  /\ crud' = [crud EXCEPT !.items[r.view] = r.items]
  /\ calls' = Del(calls, r)
  /\ UNCHANGED <<confirms, store, used, aux, unhandled>>
  /\ UNCHANGED SessionVars
  /\ UNCHANGED FeedVars
  /\ UNCHANGED MoreVars

(* ------------------------- ChannelSettingsPage ------------------------- *)
\* the "+ Add Channel" button
ToggleChannelForm ==
  /\ Mounted /\ route = "channels"
  /\ crud' = [crud EXCEPT !.showForm = ~@, !.editChannel = NoId,
                          !.setupGuide = FALSE]
  /\ UNCHANGED <<calls, confirms, store, used, aux, unhandled>>
  /\ UNCHANGED SessionVars
  /\ UNCHANGED FeedVars
  /\ UNCHANGED MoreVars

\* onChange of a credential field, in the create form or in the edit form;
\* fields that were fetched and not retyped keep the fetched value
TypeCredential ==
  /\ Mounted /\ route = "channels"
  /\ crud.showForm \/ crud.editChannel # NoId
  /\ crud.credentials.from # "fetched"
  /\ crud.credentials # [from |-> "typed", id |-> crud.editChannel]
  /\ crud' = [crud EXCEPT !.credentials =
                            [from |-> "typed", id |-> crud.editChannel]]
  /\ UNCHANGED <<calls, confirms, store, used, aux, unhandled>>
  /\ UNCHANGED SessionVars
  /\ UNCHANGED FeedVars
  /\ UNCHANGED MoreVars

\* onChange of the channel type in the create form
ChangeType ==
  /\ Mounted /\ route = "channels"
  /\ crud.showForm /\ crud.credentials # NoCredentials
  /\ crud' = [crud EXCEPT !.credentials = NoCredentials]
  /\ UNCHANGED <<calls, confirms, store, used, aux, unhandled>>
  /\ UNCHANGED SessionVars
  /\ UNCHANGED FeedVars
  /\ UNCHANGED MoreVars

\* handleCreate up to its await
HandleCreate ==
  /\ Mounted /\ route = "channels"
  /\ crud.showForm /\ ~crud.creating
  /\ used.edit < MaxEdit /\ used' = Edits
  /\ crud' = [crud EXCEPT !.creating = TRUE]
  /\ calls' = Add(calls, Call("channels", "create", NoId, NoConv,
                              crud.credentials))
  /\ UNCHANGED <<confirms, store, aux, unhandled>>
  /\ UNCHANGED SessionVars
  /\ UNCHANGED FeedVars
  /\ UNCHANGED MoreVars

\* handleCreate after its await
CreateDone(r) ==
  /\ Mounted
  /\ r \in Calling /\ r.st = "ok" /\ r.op = "create" /\ r.view = "channels"
  /\ crud' = [crud EXCEPT !.toasts = @ + 1, !.showForm = FALSE,
                          !.credentials = NoCredentials, !.setupGuide = TRUE,
                          !.creating = FALSE]
  /\ calls' = Load(Del(calls, r), "channels")
  /\ UNCHANGED <<confirms, store, used, aux, unhandled>>
  /\ UNCHANGED SessionVars
  /\ UNCHANGED FeedVars
  /\ UNCHANGED MoreVars

\* startEdit up to its await
StartEdit(ch) ==
  /\ Mounted /\ route = "channels"
  /\ ch \in crud.items["channels"]
  /\ used.edit < MaxEdit /\ used' = Edits
  /\ crud' = [crud EXCEPT !.editChannel = ch]
  /\ calls' = Add(calls, Call("channels", "getcreds", ch, NoConv, NoCredentials))
  /\ UNCHANGED <<confirms, store, aux, unhandled>>
  /\ UNCHANGED SessionVars
  /\ UNCHANGED FeedVars
  /\ UNCHANGED MoreVars

\* startEdit after its await: setCredentials(creds)
CredentialsLoaded(r) ==
  /\ Mounted
  /\ r \in Calling /\ r.st = "ok" /\ r.op = "getcreds"
  /\ crud' = [crud EXCEPT !.credentials = r.creds]
  /\ calls' = Del(calls, r)
  /\ UNCHANGED <<confirms, store, used, aux, unhandled>>
  /\ UNCHANGED SessionVars
  /\ UNCHANGED FeedVars
  /\ UNCHANGED MoreVars

\* the Cancel button of the edit form
CancelEdit ==
  /\ Mounted /\ route = "channels"
  /\ crud.editChannel # NoId
  /\ crud' = [crud EXCEPT !.editChannel = NoId, !.credentials = NoCredentials]
  /\ UNCHANGED <<calls, confirms, store, used, aux, unhandled>>
  /\ UNCHANGED SessionVars
  /\ UNCHANGED FeedVars
  /\ UNCHANGED MoreVars

\* handleSaveCredentials up to its await
HandleSaveCredentials(ch) ==
  /\ Mounted /\ route = "channels"
  /\ ch # NoId /\ crud.editChannel = ch /\ ch \in crud.items["channels"]
  /\ used.edit < MaxEdit /\ used' = Edits
  /\ calls' = Add(calls, Call("channels", "credentials", ch, NoConv,
                              crud.credentials))
  /\ UNCHANGED <<crud, confirms, store, aux, unhandled>>
  /\ UNCHANGED SessionVars
  /\ UNCHANGED FeedVars
  /\ UNCHANGED MoreVars

\* handleSaveCredentials after its await
SaveDone(r) ==
  /\ Mounted
  /\ r \in Calling /\ r.st = "ok" /\ r.op = "credentials"
  /\ crud' = [crud EXCEPT !.toasts = @ + 1, !.editChannel = NoId,
                          !.credentials = NoCredentials]
  /\ calls' = Load(Del(calls, r), "channels")
  /\ UNCHANGED <<confirms, store, used, aux, unhandled>>
  /\ UNCHANGED SessionVars
  /\ UNCHANGED FeedVars
  /\ UNCHANGED MoreVars

(* --------------------------- ChatPanel: tags --------------------------- *)
\* handleAddTag up to its await, the input holding tag t
HandleAddTag(t) ==
  /\ Mounted /\ conversationId # NoConv
  /\ used.edit < MaxEdit /\ used' = Edits
  /\ calls' = Add(calls, Call("tags", "create", t, conversationId, NoCredentials))
  /\ UNCHANGED <<crud, confirms, store, aux, unhandled>>
  /\ UNCHANGED SessionVars
  /\ UNCHANGED FeedVars
  /\ UNCHANGED MoreVars

\* handleRemoveTag up to its await: the DELETE is sent at once
HandleRemoveTag(t) ==
  /\ Mounted /\ conversationId # NoConv
  /\ t \in crud.tags
  /\ used.edit < MaxEdit /\ used' = Edits
  /\ calls' = Add(calls, Call("tags", "delete", t, conversationId, NoCredentials))
  /\ UNCHANGED <<crud, confirms, store, aux, unhandled>>
  /\ UNCHANGED SessionVars
  /\ UNCHANGED FeedVars
  /\ UNCHANGED MoreVars

\* handleAddTag and handleRemoveTag after their await: loadTags() of the
\* render that started them
TagChanged(r) ==
  /\ Mounted
  /\ r \in Calling /\ r.st = "ok" /\ r.view = "tags"
  /\ calls' = Del(calls, r)
  /\ aux' = aux (+) LoadTags(r.conv)
  /\ UNCHANGED <<crud, confirms, store, used, unhandled>>
  /\ UNCHANGED SessionVars
  /\ UNCHANGED FeedVars
  /\ UNCHANGED MoreVars

\* loadTags: the backend answers, then .then(setTags) or .catch(() => setTags([]))
TagsLoaded(c, ok) ==
  /\ Mounted
  /\ <<"tags", c>> \in BagToSet(aux)
  /\ aux' = aux (-) SetToBag({<<"tags", c>>})
  /\ crud' = [crud EXCEPT !.tags = IF ok THEN store.tags[c] ELSE {}]
  /\ UNCHANGED <<calls, confirms, store, used, unhandled>>
  /\ UNCHANGED SessionVars
  /\ UNCHANGED FeedVars
  /\ UNCHANGED MoreVars

(* ------------------ a request of a list page fails --------------------- *)
\* the call sites that wrap their await in try/catch or attach .catch
Caught(r) ==
  \/ r.view = "providers" /\ r.op \in {"create", "update"}
  \/ r.view = "channels" /\ r.op \in {"create", "credentials", "getcreds"}

\* request() throws for r; a catch shows a toast (startEdit's empties the
\* credentials), a call site without one leaves the rejection unhandled
CallRejected(r, status) ==
  /\ Mounted
  /\ r \in Calling /\ r.st = "sent"
  /\ calls' = Del(calls, r)
  /\ href' = RequestHref(status)
  /\ crud' = IF ~Caught(r) THEN crud
             ELSE IF r.op = "getcreds"
             THEN [crud EXCEPT !.credentials = NoCredentials]
             ELSE [crud EXCEPT !.toasts = @ + 1,
                     !.creating = IF r.view = "channels" /\ r.op = "create"
                                  THEN FALSE ELSE @]
  /\ unhandled' = (unhandled \/ ~Caught(r))
  /\ UNCHANGED <<admin, loading, unloaded, socket, net, events, server,
                 sockets, joins, route, confirms, store, used, aux>>
  /\ UNCHANGED FeedVars
  /\ UNCHANGED MoreVars

(* -------------------- ConversationsPage: the list ---------------------- *)
Listing == BagToSet(lists)

\* onClick of a filter button: setFilter(f); load changes with the filter
\* and the effect keyed on it runs load()
SetFilter(f) ==
  /\ Mounted /\ route = "conversations"
  /\ f # filter
  /\ BagCardinality(lists) < MaxPending
  /\ filter' = f
  /\ lists' = LoadList(lists, f)
  /\ UNCHANGED <<admin, loading, href, unloaded, socket, net, aux, events,
                 server, used, sockets, joins, unhandled>>
  /\ UNCHANGED FeedVars
  /\ UNCHANGED PageVars
  /\ UNCHANGED <<conversation, outbound, conversations, ToggleVars, ScopeVars>>

\* The backend handles a list request: the answer is fixed at this moment
ServeList(r) ==
  /\ r \in Listing /\ r.st = "sent"
  /\ lists' = (lists (-) SetToBag({r}))
                (+) SetToBag({[r EXCEPT !.st = "ok", !.items = ListOf(r.filter)]})
  /\ UNCHANGED <<admin, loading, href, unloaded, socket, net, aux, events,
                 server, used, sockets, joins, unhandled>>
  /\ UNCHANGED FeedVars
  /\ UNCHANGED PageVars
  /\ UNCHANGED <<conversation, outbound, filter, conversations, ToggleVars,
                 ScopeVars>>

\* load(): .then(setConversations)
ConversationsLoaded(r) ==
  /\ Mounted
  /\ r \in Listing /\ r.st = "ok"
  /\ lists' = lists (-) SetToBag({r})
  /\ conversations' = r.items
  /\ UNCHANGED <<admin, loading, href, unloaded, socket, net, aux, events,
                 server, used, sockets, joins, unhandled>>
  /\ UNCHANGED FeedVars
  /\ UNCHANGED PageVars
  /\ UNCHANGED <<conversation, outbound, filter, ToggleVars, ScopeVars>>

(* ------------------------ SettingsPage: AiToggle ----------------------- *)
Toggling == BagToSet(toggles)

\* toggle up to its await: the new value is shown at once, then the PUT; the
\* button is rendered once the first GET has ended. A first GET that fails
\* leaves the default shown; the toggles here start from the backend's value.
Toggle ==
  /\ Mounted /\ route = "settings"
  /\ ~ai.loading
  /\ BagCardinality(toggles) < MaxPending
  /\ used.edit < MaxToggle
  /\ used' = [used EXCEPT !.edit = @ + 1]
  /\ ai' = [ai EXCEPT !.enabled = ~ai.enabled]
  /\ toggles' = toggles (+) SetToBag({ToggleReq("put", ~ai.enabled)})
  /\ UNCHANGED <<admin, loading, href, unloaded, socket, net, aux, events,
                 server, sockets, joins, unhandled>>
  /\ UNCHANGED FeedVars
  /\ UNCHANGED PageVars
  /\ UNCHANGED <<conversation, outbound, ListVars, ScopeVars>>

\* The backend handles a request to /settings/ai-toggle
ServeToggle(r) ==
  /\ r \in Toggling /\ r.st = "sent"
  /\ IF r.op = "put"
     THEN /\ store' = [store EXCEPT !.ai_auto_reply_enabled = r.val]
          /\ toggles' = (toggles (-) SetToBag({r}))
                          (+) SetToBag({[r EXCEPT !.st = "ok"]})
     ELSE /\ UNCHANGED store
          /\ toggles' = (toggles (-) SetToBag({r}))
                          (+) SetToBag({[r EXCEPT !.st = "ok",
                                           !.val = store.ai_auto_reply_enabled]})
  /\ UNCHANGED <<admin, loading, href, unloaded, socket, net, aux, events,
                 server, used, sockets, joins, unhandled, route, crud, calls,
                 confirms>>
  /\ UNCHANGED FeedVars
  /\ UNCHANGED <<conversation, outbound, ListVars, ScopeVars, ai>>

\* the effect of the mount: .then((data) => { setEnabled(...); setLoading(false) })
ToggleLoaded(r) ==
  /\ Mounted
  /\ r \in Toggling /\ r.op = "get" /\ r.st = "ok"
  /\ toggles' = toggles (-) SetToBag({r})
  /\ ai' = [enabled |-> r.val, loading |-> FALSE]
  /\ UNCHANGED <<admin, loading, href, unloaded, socket, net, aux, events,
                 server, used, sockets, joins, unhandled>>
  /\ UNCHANGED FeedVars
  /\ UNCHANGED PageVars
  /\ UNCHANGED <<conversation, outbound, ListVars, ScopeVars>>

\* toggle after its await, the PUT having succeeded: nothing is left to do
ToggleDone(r) ==
  /\ Mounted
  /\ r \in Toggling /\ r.op = "put" /\ r.st = "ok"
  /\ toggles' = toggles (-) SetToBag({r})
  /\ UNCHANGED <<admin, loading, href, unloaded, socket, net, aux, events,
                 server, used, sockets, joins, unhandled>>
  /\ UNCHANGED FeedVars
  /\ UNCHANGED PageVars
  /\ UNCHANGED <<conversation, outbound, ListVars, ScopeVars, ai>>

\* the catch of toggle: setEnabled(!newVal), then the alert
ToggleFailed(r) ==
  /\ Mounted
  /\ r \in Toggling /\ r.op = "put" /\ r.st = "sent"
  /\ toggles' = toggles (-) SetToBag({r})
  /\ ai' = [ai EXCEPT !.enabled = ~r.val]
  /\ alertCount' = alertCount + 1
  /\ UNCHANGED <<admin, loading, href, unloaded, socket, conversationId,
                 messages, hasMore, loadingMore, isInitialLoad, input, sending,
                 uploading, handler, initialScrolls, net, aux, events, server,
                 used, sockets, joins, unhandled>>
  /\ UNCHANGED PageVars
  /\ UNCHANGED <<conversation, outbound, ListVars, ScopeVars>>

(* ------------------------ leaving the conversations -------------------- *)
\* A sidebar link replaces ConversationsPage by list page v while no send or
\* upload is under way: ChatPanel unmounts, so the cleanup of its socket
\* effect runs and its state is gone; answers still on their way set state of
\* an unmounted component, which has no effect; page v mounts and loads
Leave(v) ==
  /\ Mounted /\ route = "conversations" /\ v \in ListViews
  /\ ~sending /\ ~uploading
  /\ route' = v
  /\ LET sc == ScopeEffect([emits |-> emits, listeners |-> listeners],
                           handler, NoConv)
     IN emits' = sc.emits /\ listeners' = sc.listeners
  /\ conversationId' = NoConv /\ messages' = <<>> /\ hasMore' = FALSE
  /\ loadingMore' = FALSE /\ isInitialLoad' = TRUE /\ input' = ""
  /\ handler' = NoConv /\ initialScrolls' = 0
  /\ net' = EmptyBag /\ aux' = EmptyBag
  /\ conversation' = NoConv
  /\ filter' = "all" /\ conversations' = {} /\ lists' = EmptyBag
  /\ crud' = CrudInit /\ calls' = Load(EmptyBag, v)
  /\ UNCHANGED <<admin, loading, href, unloaded, socket, sending, uploading,
                 alertCount, events, server, used, sockets, joins, unhandled,
                 confirms, store, outbound, ToggleVars>>

(* ---------------------------- specification ---------------------------- *)
\* The page once the identity fetch has resolved and the routes are mounted
InitFeed ==
  /\ admin \in Admins /\ loading = FALSE /\ socket = "open"
  /\ conversationId = NoConv /\ messages = <<>> /\ hasMore = FALSE
  /\ loadingMore = FALSE /\ isInitialLoad = TRUE /\ input = ""
  /\ sending = FALSE /\ uploading = FALSE /\ handler = NoConv
  /\ alertCount = 0 /\ initialScrolls = 0
  /\ href = App /\ unloaded = FALSE
  /\ net = EmptyBag
  /\ aux = EmptyBag /\ events = <<>>
  /\ server = InitServer
  /\ used = [select |-> 0, new |-> 0, connect |-> 1, edit |-> 0]
  /\ sockets = <<[org |-> OrgId(admin), st |-> "connected"]>>
  /\ joins = <<OrgId(admin)>>
  /\ unhandled = FALSE
  /\ route = "conversations" /\ calls = EmptyBag
  /\ PagesInit
  /\ conversation = NoConv /\ outbound = NoOutbound
  /\ filter = "all" /\ conversations = ListOf("all") /\ lists = EmptyBag
  /\ ai = AiInit /\ toggles = EmptyBag
  /\ emits = <<>> /\ listeners = EmptyBag

Accepted == {f \in Files : f.type \in Allowed /\ f.size <= MaxFileSize}

\* Selection, initial load, backfill and live append
CoreNext ==
  \/ \E c \in Convs \cup {NoConv} : Select(c)
  \/ LoadOlderMessages
  \/ OnNewMessage
  \/ \E c \in Convs : CreateMessage(c)
  \/ \E r \in InFlight : ServeGet(r)
  \/ \E r \in InFlight : InitialLoaded(r)
  \/ \E r \in InFlight : OlderLoaded(r)
  \/ \E r \in InFlight : NewestLoaded(r)
  \/ \E r \in InFlight : Rejected(r, 500)

\* The upload of a file and the reload that follows it
UploadNext ==
  \/ \E f \in Accepted : HandleFileUpload(f)
  \/ \E r \in InFlight : ServePost(r)
  \/ \E r \in InFlight : Uploaded(r, FALSE)
  \/ \E r \in InFlight : UploadFailed(r)

\* The composer and the send
SendNext ==
  \/ \E t \in Texts : TypeInput(t)
  \/ HandleSend
  \/ \E r \in InFlight : ServePost(r)
  \/ \E r \in InFlight : SendPosted(r)
  \/ \E r \in InFlight : SendFetched(r)

\* The conversation view with uploads
Spec == InitFeed /\ [][CoreNext \/ UploadNext]_vars

\* The conversation view with the composer
SpecSend == InitFeed /\ [][CoreNext \/ SendNext]_vars

\* The page from its load on: the identity guard, then the conversation view
GuardNext ==
  \/ \E a \in Admins : MeResolved(a)
  \/ \E s \in Statuses : MeRejected(s)
  \/ Unload
  \/ \E r \in InFlight, s \in Statuses : Rejected(r, s)
  \/ \E i \in 1..Len(sockets) : SocketConnect(i)
  \/ \E i \in 1..Len(sockets) : SocketDrop(i)

SpecGuard == Init /\ [][GuardNext \/ CoreNext]_vars

\* The session: the identity guard, the socket, and the first loads
SessionNext ==
  \/ \E c \in Convs \cup {NoConv} : Select(c)
  \/ \E r \in InFlight : ServeGet(r)
  \/ \E r \in InFlight : InitialLoaded(r)

SpecSession == Init /\ [][GuardNext \/ SessionNext]_vars

\* The upload of any file, and the answers the backend can give
UploadAnyNext ==
  \/ \E f \in Files : HandleFileUpload(f)
  \/ \E r \in InFlight : ServePost(r)
  \/ \E r \in InFlight, w \in BOOLEAN : Uploaded(r, w)
  \/ \E r \in InFlight, s \in Statuses : ServeStatus(r, s)
  \/ \E r \in InFlight : Threw(r)
  \/ \E r \in InFlight : UploadAnswered(r)
  \/ \E r \in InFlight : UploadFailed(r)
  \/ Unload

SpecUpload == InitFeed /\ [][SessionNext \/ UploadAnyNext]_vars

\* The session on one of the routes, the page's first load issued by its mount
InitCrud ==
  /\ admin \in Admins /\ loading = FALSE /\ socket = "open"
  /\ conversationId = NoConv /\ messages = <<>> /\ hasMore = FALSE
  /\ loadingMore = FALSE /\ isInitialLoad = TRUE /\ input = ""
  /\ sending = FALSE /\ uploading = FALSE /\ handler = NoConv
  /\ alertCount = 0 /\ initialScrolls = 0
  /\ href = App /\ unloaded = FALSE
  /\ net = EmptyBag
  /\ aux = EmptyBag /\ events = <<>>
  /\ server = InitServer
  /\ used = [select |-> 0, new |-> 0, connect |-> 1, edit |-> 0]
  /\ sockets = <<[org |-> OrgId(admin), st |-> "connected"]>>
  /\ joins = <<OrgId(admin)>>
  /\ unhandled = FALSE
  /\ route \in Routes
  /\ calls = IF route \in ListViews THEN Load(EmptyBag, route) ELSE EmptyBag
  /\ PagesInit
  /\ conversation = NoConv /\ outbound = NoOutbound
  /\ filter = "all" /\ lists = EmptyBag
  /\ conversations = IF route = "conversations" THEN ListOf("all") ELSE {}
  /\ ai = AiInit /\ toggles = EmptyBag
  /\ emits = <<>> /\ listeners = EmptyBag

\* The list pages
PagesNext ==
  \/ \E v \in ListViews : ToggleForm(v)
  \/ \E v \in ListViews, id \in Ids : HandleEdit(v, id)
  \/ \E v \in ListViews : HandleSubmit(v)
  \/ \E r \in Calling : SubmitDone(r)
  \/ \E id \in Ids : HandleSetActive(id)
  \/ \E v \in ListViews, id \in Ids, ok \in BOOLEAN : HandleDelete(v, id, ok)
  \/ \E r \in Calling : MutationDone(r)
  \/ \E r \in Calling : ListLoaded(r)
  \/ ToggleChannelForm
  \/ TypeCredential
  \/ ChangeType
  \/ HandleCreate
  \/ \E r \in Calling : CreateDone(r)
  \/ \E ch \in Ids : StartEdit(ch)
  \/ \E r \in Calling : CredentialsLoaded(r)
  \/ CancelEdit
  \/ \E ch \in Ids : HandleSaveCredentials(ch)
  \/ \E r \in Calling : SaveDone(r)
  \/ \E r \in Calling : ServeCall(r)
  \/ \E r \in Calling : CallRejected(r, 500)

\* The tags of the conversation view
TagsNext ==
  \/ \E t \in Ids : HandleAddTag(t)
  \/ \E t \in Ids : HandleRemoveTag(t)
  \/ \E r \in Calling : TagChanged(r)
  \/ \E c \in Convs, ok \in BOOLEAN : TagsLoaded(c, ok)

\* The read marking of the conversation view, with the loads and the events
\* that send it
ReadNext ==
  \/ \E c \in Convs : ReadDone(c)
  \/ \E c \in Convs, s \in Statuses : ReadRejected(c, s)
  \/ Unload
  \/ OnNewMessage
  \/ \E c \in Convs : CreateMessage(c)
  \/ \E r \in InFlight : NewestLoaded(r)

SpecRead == InitFeed /\ [][SessionNext \/ ReadNext]_vars

\* The list pages with the conversation view and its tags
SpecCrud == InitCrud /\ [][PagesNext \/ TagsNext \/ SessionNext]_vars

\* The list pages alone
InitPages == InitCrud /\ route \in ListViews

SpecPages == InitPages /\ [][PagesNext]_vars

\* The upload of any file with the loads around it
FileNext ==
  \/ \E f \in Files : HandleFileUpload(f)
  \/ \E r \in InFlight : ServePost(r)
  \/ \E r \in InFlight, w \in BOOLEAN : Uploaded(r, w)
  \/ \E r \in InFlight : UploadFailed(r)

SpecFile == InitFeed /\ [][SessionNext \/ FileNext]_vars

\* Live events, the fetches they start, backfill and the summary
EventNext ==
  \/ OnNewMessage
  \/ \E c \in Convs : CreateMessage(c)
  \/ \E r \in InFlight : NewestLoaded(r)
  \/ LoadOlderMessages
  \/ \E r \in InFlight : OlderLoaded(r)
  \/ \E c \in Convs : DetailLoaded(c)

SpecEvent == InitFeed /\ [][SessionNext \/ EventNext]_vars

\* Backfill, send and upload, with the answers and failures that end them
BusyNext ==
  \/ Select(1)
  \/ \E r \in InFlight : ServeGet(r)
  \/ \E r \in InFlight : InitialLoaded(r)
  \/ LoadOlderMessages
  \/ \E r \in InFlight : OlderLoaded(r)
  \/ TypeInput("hi")
  \/ HandleSend
  \/ \E f \in Accepted : HandleFileUpload(f)
  \/ \E r \in InFlight : ServePost(r)
  \/ \E r \in InFlight : SendPosted(r)
  \/ \E r \in InFlight : SendFetched(r)
  \/ \E r \in InFlight : Uploaded(r, FALSE)
  \/ \E r \in InFlight, s \in Statuses : Rejected(r, s)
  \/ \E r \in InFlight : UploadFailed(r)
  \/ Unload

\* Every request is answered or fails, and the event loop runs the
\* continuation of every settled promise
Settles ==
  /\ WF_vars(\E r \in InFlight : ServeGet(r))
  /\ WF_vars(\E r \in InFlight : ServePost(r))
  /\ WF_vars(\E r \in InFlight : InitialLoaded(r))
  /\ WF_vars(\E r \in InFlight : OlderLoaded(r))
  /\ WF_vars(\E r \in InFlight : SendPosted(r))
  /\ WF_vars(\E r \in InFlight : SendFetched(r))
  /\ WF_vars(\E r \in InFlight : Uploaded(r, FALSE))

SpecBusy == InitFeed /\ [][BusyNext]_vars /\ Settles

\* The conversation list: the filter, the events that reload it, the answers
ListNext ==
  \/ \E f \in Filters : SetFilter(f)
  \/ \E r \in Listing : ServeList(r)
  \/ \E r \in Listing : ConversationsLoaded(r)
  \/ OnNewMessage
  \/ \E c \in Convs : CreateMessage(c)

SpecList == InitFeed /\ [][ListNext]_vars

\* The settings page just mounted: AiToggle's effect has sent its GET
InitToggle ==
  /\ admin \in Admins /\ loading = FALSE /\ socket = "open"
  /\ conversationId = NoConv /\ messages = <<>> /\ hasMore = FALSE
  /\ loadingMore = FALSE /\ isInitialLoad = TRUE /\ input = ""
  /\ sending = FALSE /\ uploading = FALSE /\ handler = NoConv
  /\ alertCount = 0 /\ initialScrolls = 0
  /\ href = App /\ unloaded = FALSE
  /\ net = EmptyBag
  /\ aux = EmptyBag /\ events = <<>>
  /\ server = InitServer
  /\ used = [select |-> 0, new |-> 0, connect |-> 1, edit |-> 0]
  /\ sockets = <<[org |-> OrgId(admin), st |-> "connected"]>>
  /\ joins = <<OrgId(admin)>>
  /\ unhandled = FALSE
  /\ route = "settings" /\ calls = EmptyBag
  /\ crud = CrudInit
  /\ confirms = [accepted |-> 0, declined |-> 0]
  /\ \E b \in BOOLEAN : store = [InitStore EXCEPT !.ai_auto_reply_enabled = b]
  /\ conversation = NoConv /\ outbound = NoOutbound
  /\ filter = "all" /\ conversations = {} /\ lists = EmptyBag
  /\ ai = AiInit /\ toggles = SetToBag({ToggleReq("get", TRUE)})
  /\ emits = <<>> /\ listeners = EmptyBag

\* The AI auto-reply toggle
ToggleNext ==
  \/ Toggle
  \/ \E r \in Toggling : ServeToggle(r)
  \/ \E r \in Toggling : ToggleLoaded(r)
  \/ \E r \in Toggling : ToggleDone(r)
  \/ \E r \in Toggling : ToggleFailed(r)

SpecToggle == InitToggle /\ [][ToggleNext]_vars

\* Selecting conversations, their new_message events, and leaving the page
ScopeNext ==
  \/ OnNewMessage
  \/ \E c \in Convs : CreateMessage(c)
  \/ \E r \in InFlight : NewestLoaded(r)
  \/ \E v \in ListViews : Leave(v)

SpecScope == InitFeed /\ [][SessionNext \/ ScopeNext]_vars

(* ----------------------------- properties ------------------------------ *)
\* This step hands the successful answer r to its continuation
Answered(r) == r.st = "ok" /\ CopiesIn(r, net') < CopiesIn(r, net)

\* This step hands a failure of request r to its continuation
Failed(r) ==
  /\ r.st = "sent" /\ CopiesIn(r, net') < CopiesIn(r, net)
  /\ \A q \in BagToSet(net') :
       (q.kind = r.kind /\ q.conv = r.conv /\ q.before = r.before /\ q.st = "ok")
       => CopiesIn(q, net') <= CopiesIn(q, net)
  /\ server' = server

\* The window holds messages of the selected conversation only
OwnWindow == \A i \in 1..Len(messages) : server[messages[i]] = conversationId

Sorted(w) == \A i \in 1..(Len(w) - 1) : w[i] < w[i + 1]

\* C1: once the selection has changed, no answer to a messages request issued
\* for another conversation (initial load, backfill, live-append fetch, send
\* follow-up fetch) changes the feed window or the has-more flag.
C1_NoStaleLeak ==
  [][\A r \in InFlight :
        ( /\ r.kind \in {"initial", "older", "newest", "sendfetch"}
          /\ conversationId # NoConv /\ r.conv # conversationId
          /\ Answered(r) )
        => UNCHANGED <<messages, hasMore>>]_vars

\* C2: when a backfill of the selected conversation completes on a window of
\* that conversation whose oldest message is still the one the backfill was
\* issued for, every adjacent pair (a, b) of the window has a < b.
C2_SortedAfterBackfill ==
  [][\A r \in InFlight :
        ( /\ r.kind = "older" /\ r.conv = conversationId
          /\ OwnWindow
          /\ messages # <<>> /\ r.before = messages[1]
          /\ Answered(r) )
        => Sorted(messages')]_vars

\* C3: the window is a contiguous slice of the selected conversation's
\* messages: between two consecutively held messages the server holds no
\* message of that conversation.
C3_Contiguous ==
  OwnWindow =>
    \A i \in 1..(Len(messages) - 1) :
      \A k \in (messages[i] + 1)..(messages[i + 1] - 1) :
        server[k] # conversationId

\* C4: merging a fetched newest message is idempotent by id: a live-append
\* or send follow-up answer carrying a message the window already holds
\* leaves the window as it is, and once an answer's message is merged,
\* merging the same message again changes neither content nor length.
C4_MergeIdempotent ==
  [][\A r \in InFlight :
        ( /\ r.kind \in {"newest", "sendfetch"}
          /\ Answered(r) /\ r.page # <<>> )
        => /\ (r.page[1] \in Range(messages) => messages' = messages)
           /\ MergeNewest(messages', r.page[1]) = messages'
           /\ Len(MergeNewest(messages', r.page[1])) = Len(messages')]_vars

\* C4 witness: the message a send stored is the window's last, and a
\* live-append answer and a send follow-up answer carrying it are in flight
C4_Witness ==
  \E r1 \in InFlight, r2 \in InFlight :
    /\ r1.kind = "newest" /\ r2.kind = "sendfetch"
    /\ r1.st = "ok" /\ r2.st = "ok"
    /\ r1.page # <<>> /\ r1.page = r2.page
    /\ messages # <<>> /\ messages[Len(messages)] = r1.page[1]
    /\ r1.page[1] > Total1 + Total2

\* C5: every change of the selection to a conversation sets has-more to false
\* and the first-load flag to true in the step that issues the messages fetch
\* for it, so before any answer for the new conversation is applied.
C5_ResetOnSwitch ==
  [][(conversationId' # conversationId /\ conversationId' # NoConv)
        => /\ hasMore' = FALSE
           /\ isInitialLoad' = TRUE
           /\ CopiesIn(Req("initial", conversationId', 0), net')
                = CopiesIn(Req("initial", conversationId', 0), net) + 1]_vars

\* C5 witness: conversation 2 was just selected while the window still holds
\* the newest page of conversation 1, which has older messages
C5_Witness ==
  /\ conversationId = 2 /\ hasMore = FALSE /\ isInitialLoad
  /\ Req("initial", 2, 0) \in InFlight
  /\ Len(messages) = PageSize
  /\ \A i \in 1..Len(messages) : server[messages[i]] = 1
  /\ Len(messages) < Len(IdsOf(1, 0))

\* C6: has-more follows the page arithmetic: an initial load sets it to
\* (returned count < total count), a backfill that returned n messages to
\* (n >= 50); with total = 120 the initial load gives true, a backfill of 50
\* keeps it true and a backfill of fewer than 50 gives false.
C6_HasMoreArithmetic ==
  [][\A r \in InFlight :
        Answered(r) =>
          /\ r.kind = "initial" => hasMore' = (Len(r.page) < r.total)
          /\ r.kind = "older" => hasMore' = (Len(r.page) >= 50)
          /\ (r.kind = "initial" /\ r.total = 120) => hasMore'
          /\ (r.kind = "older" /\ Len(r.page) = 50) => hasMore'
          /\ (r.kind = "older" /\ Len(r.page) < 50) => ~hasMore']_vars

\* C6 witness: conversation 1 with its 120 messages, all of them in the window
\* after the initial load and two backfills, the last one of 20 messages
C6_Witness ==
  /\ conversationId = 1 /\ Len(IdsOf(1, 0)) = 120
  /\ messages = IdsOf(1, 0)
  /\ ~hasMore /\ ~loadingMore /\ net = EmptyBag

\* C7: at most one backfill request is in flight, exactly while loadingMore is
\* set, and a backfill request is only ever issued from a state with a
\* selected conversation, no backfill in flight, has-more set and a window
\* that is not empty.
C7_BackfillGuarded ==
  /\ [](Count("older") = IF loadingMore THEN 1 ELSE 0)
  /\ [][Count("older")' > Count("older")
          => /\ conversationId # NoConv /\ ~loadingMore /\ hasMore
             /\ messages # <<>>]_vars

\* C7 witness: a backfill is in flight while has-more is still set and the
\* window is not empty, so only the busy flag stops the next trigger
C7_Witness ==
  /\ loadingMore /\ hasMore /\ messages # <<>> /\ conversationId # NoConv
  /\ Count("older") = 1

\* C8: the non-smooth scroll to bottom fires at most once in one selection.
C8_ScrollOnce == initialScrolls <= 1

\* This step rejects a request of handleSend
SendFailed(r) == r.kind \in {"send", "sendfetch"} /\ Failed(r)

C10_NoChildrenWithoutIdentity == ~(Mounted /\ admin = NoAdmin)

\* C11: the identity fetch is in flight at most once, no step issues it again
\* after it has resolved or failed, and the placeholder is shown for as long
\* as the fetch has not resolved.
C11_SingleIdentityFetch ==
  /\ [](Count("me") <= 1)
  /\ []((loading /\ ~unloaded) <=> Count("me") = 1)
  /\ [][Count("me")' <= Count("me")]_vars

\* C11 witness: the fetch has succeeded, the children are rendered and a
\* conversation has been loaded, with no identity fetch in flight
C11_Witness ==
  /\ Mounted /\ admin \in Admins /\ Count("me") = 0
  /\ conversationId # NoConv /\ messages # <<>>

\* the sockets that are not disconnected
Live(ss) == {i \in 1..Len(ss) : ss[i].st # "disconnected"}

\* C12: at most one socket is not disconnected, and a step that opens a socket
\* leaves every socket opened earlier disconnected.
C12_OneLiveSocket ==
  /\ [](Cardinality(Live(sockets)) <= 1)
  /\ [][Len(sockets') > Len(sockets)
          => \A i \in 1..Len(sockets) : sockets'[i].st = "disconnected"]_vars

\* C12 witness: the one socket of the session has lost its transport and is
\* connecting again
C12_Witness ==
  /\ admin \in Admins /\ Len(sockets) = 1
  /\ sockets[1].st = "connecting" /\ Len(joins) = 1

\* C13: no socket is live while the identity is null, a socket is only opened
\* in a step that leaves the identity set, and every step in which a socket
\* becomes connected emits join_org with the org_id of the identity.
C13_JoinOrgOnConnect ==
  /\ [](admin = NoAdmin => Live(sockets) = {})
  /\ [][Len(sockets') > Len(sockets) => admin' # NoAdmin]_vars
  /\ [][\A i \in 1..Len(sockets) :
          (sockets[i].st # "connected" /\ sockets'[i].st = "connected")
          => /\ admin # NoAdmin
             /\ joins' = Append(joins, OrgId(admin))]_vars

\* C13 witness: the socket is connected for the second time and join_org was
\* emitted at each connect
C13_Witness ==
  /\ admin \in Admins /\ Len(sockets) = 1 /\ sockets[1].st = "connected"
  /\ joins = <<OrgId(admin), OrgId(admin)>>

\* This step hands the answer r to its caller in the page
Delivered(r) == CopiesIn(r, net') < CopiesIn(r, net) /\ ~unloaded'

\* C14: every request answered 401, made through the request helper or by the
\* upload, starts the redirect to the login page when its answer is read and
\* changes neither the window nor has-more.
C14_RedirectOn401 ==
  [][\A r \in InFlight :
        (r.st = "401" /\ Delivered(r))
        => href' = Login /\ UNCHANGED <<messages, hasMore>>]_vars

\* C15: the upload handler sends an upload request exactly when the file's
\* type is one of the seven allowed types and its size is at most 10485760
\* bytes; for any other file it sends nothing and leaves the uploading flag,
\* the window and has-more as they are.
C15_UploadIffAccepted ==
  [][\A f \in Files :
        HandleFileUpload(f) =>
          LET ok == /\ f.type \in {"image/jpeg", "image/png", "image/gif",
                                  "image/webp", "video/mp4", "video/quicktime",
                                  "video/webm"}
                    /\ f.size <= 10485760
          IN /\ ok <=> Count("upload")' = Count("upload") + 1
             /\ ok => uploading'
             /\ ~ok => UNCHANGED <<net, aux, uploading, messages, hasMore>>]_vars

\* C15 witness: one file was rejected with an alert and no request, then a
\* file was accepted and its upload is in flight
C15_Witness ==
  /\ alertCount = 1 /\ used.new = 2
  /\ uploading /\ Count("upload") = 1
  /\ Len(server) = Total1 + Total2

\* C16: no request the client issues ends in a rejection nobody handles.
C16_NoUnhandledRejection == ~unhandled

\* the requests of the list pages that change the backend's lists or records
Mutations == {"create", "update", "delete", "activate", "credentials"}

\* This step hands the successful answer r to a list page or to the tags
CallAnswered(r) == r.st = "ok" /\ CopiesIn(r, calls') < CopiesIn(r, calls)

\* This step hands a failure of r to a list page or to the tags
CallFailed(r) ==
  /\ r.st = "sent" /\ CopiesIn(r, calls') < CopiesIn(r, calls)
  /\ \A q \in BagToSet(calls') :
       (q.view = r.view /\ q.op = r.op /\ q.conv = r.conv /\ q.st = "ok")
       => CopiesIn(q, calls') <= CopiesIn(q, calls)
  /\ store' = store /\ ~unloaded'

\* This step issues the load of list v
LoadIssued(v) ==
  CopiesIn(Call(v, "list", NoId, NoConv, NoCredentials), calls')
    = CopiesIn(Call(v, "list", NoId, NoConv, NoCredentials), calls) + 1

\* The lists shown change only by being replaced with the answer of a load
ListsOnlyReplaced ==
  crud.items' # crud.items
  => \E r \in Calling :
       /\ r.op = "list" /\ CallAnswered(r)
       /\ crud.items' = [crud.items EXCEPT ![r.view] = r.items]

\* C17 as stated: on the list pages the end of every mutation, successful or
\* failed, issues a load of the list, and the lists shown change only by
\* being replaced with the answer of a load.
C17_ReloadAfterAnyMutation ==
  [][/\ \A r \in Calling :
          ( /\ r.view \in ListViews /\ r.op \in Mutations
            /\ CallAnswered(r) \/ CallFailed(r) )
          => LoadIssued(r.view)
     /\ ListsOnlyReplaced]_vars

\* C17 amended: a mutation that succeeded issues a load of the list when its
\* answer is read; a mutation that failed issues none and leaves the list as
\* it is; the lists shown change only by being replaced with a load's answer.
C17_ReloadAfterSuccess ==
  [][/\ \A r \in Calling :
          (r.view \in ListViews /\ r.op \in Mutations)
          => /\ CallAnswered(r) => LoadIssued(r.view)
             /\ CallFailed(r) => /\ calls' = Del(calls, r)
                                  /\ crud.items' = crud.items
     /\ ListsOnlyReplaced]_vars

\* C17 witness: a channel was deleted and the list shown is the reload's
\* answer, equal to what the backend holds
C17_Witness ==
  /\ route = "channels" /\ calls = EmptyBag
  /\ confirms.accepted = 1
  /\ store["channels"] # InitStore["channels"]
  /\ crud.items["channels"] = store["channels"]

\* C18: every step that sends a DELETE request is a step in which the user
\* accepted a confirmation, and a step in which the user declined one sends
\* no request.
C18_DeleteConfirmed ==
  [][/\ \A r \in BagToSet(calls') :
          (r.op = "delete" /\ CopiesIn(r, calls') > CopiesIn(r, calls))
          => confirms.accepted' = confirms.accepted + 1
     /\ confirms.declined' > confirms.declined
          => calls' = calls /\ aux' = aux]_vars

\* C19: while no channel is being edited the credentials state holds nothing
\* that came from a credentials fetch, and no create-channel request carries
\* fetched credentials.
C19_NoFetchedCredentialsOutsideEdit ==
  /\ crud.editChannel = NoId => crud.credentials.from # "fetched"
  /\ \A r \in Calling :
       (r.view = "channels" /\ r.op = "create") => r.creds.from # "fetched"

\* read-marking requests for conversation c in flight
Reads(c) == CopiesIn(<<"read", c>>, aux)

\* This step issues an initial load of conversation c
LoadIssuedFor(c) ==
  CopiesIn(Req("initial", c, 0), net') = CopiesIn(Req("initial", c, 0), net) + 1

\* This step hands a new_message event to the page
EventHandled == events # <<>> /\ events' = Tail(events) /\ ~unloaded'

\* Read marking is sent once with every initial load and once with every
\* event of the selected conversation, and at no other step
ReadsFired ==
  \A c \in Convs :
    /\ LoadIssuedFor(c) => Reads(c)' = Reads(c) + 1
    /\ (EventHandled /\ Head(events) = c /\ c = conversationId)
         => Reads(c)' = Reads(c) + 1
    /\ (EventHandled /\ (Head(events) # c \/ c # conversationId))
         => Reads(c)' = Reads(c)
    /\ Reads(c)' > Reads(c)
         => \/ LoadIssuedFor(c)
            \/ EventHandled /\ Head(events) = c /\ c = conversationId

\* This step ends a read-marking request for conversation c
ReadEnded(c) == Reads(c)' < Reads(c) /\ ~unloaded'

\* what the page shows, the address apart
Shown == <<messages, hasMore, loadingMore, isInitialLoad, input, sending,
           uploading, conversationId, handler, alertCount, initialScrolls,
           unhandled, crud, net>>

\* C20 as stated: read marking is sent once with every initial load and once
\* with every event of the selected conversation and at no other step, and
\* the end of a read-marking request, successful or failed, changes nothing
\* of the page, its address included.
C20_ReadMarkingSilent ==
  [][/\ ReadsFired
     /\ \A c \in Convs :
          ReadEnded(c) => UNCHANGED Shown /\ UNCHANGED href]_vars

\* C20 amended: read marking is sent once with every initial load and once
\* with every event of the selected conversation and at no other step; a
\* read-marking request answered 401 starts the redirect to the login page,
\* and apart from that the end of a read-marking request changes nothing.
C20_ReadMarkingSilentBut401 ==
  [][/\ ReadsFired
     /\ \A c \in Convs :
          /\ ReadEnded(c) => UNCHANGED Shown /\ href' \in {href, Login}
          /\ ReadRejected(c, 401) => href' = Login
          /\ ReadRejected(c, 500) => href' = href
          /\ ReadDone(c) => href' = href]_vars

\* C20 witness: the load of the selected conversation and one event for it
\* have each sent a read marking; one has ended with 401 and started the
\* redirect, the other is still in flight
C20_Witness ==
  /\ conversationId # NoConv /\ Reads(conversationId) = 1
  /\ used.select = 1 /\ used.new = 1 /\ events = <<>>
  /\ Count("newest") = 1
  /\ href = Login /\ ~unloaded

\* C21: a new_message event for a conversation other than the open one leaves
\* the window, has-more, the backfill flag and the summary as they are and
\* issues no messages request; an event for the open conversation issues
\* exactly one messages request, with limit=1, and no page load.
C21_EventFrame ==
  [][EventHandled =>
       /\ Head(events) # conversationId
            => UNCHANGED <<messages, hasMore, loadingMore, conversation, net>>
       /\ (Head(events) = conversationId /\ conversationId # NoConv)
            => /\ net' = Add(net, Req("newest", conversationId, 0))
               /\ UNCHANGED <<messages, hasMore, loadingMore>>]_vars

\* C21 witness: conversation 1 is open with its window and summary loaded;
\* of two events handled, the one for conversation 2 issued nothing and the
\* one for conversation 1 issued the single limit=1 fetch in flight
C21_Witness ==
  /\ conversationId = 1 /\ conversation = 1 /\ messages # <<>> /\ hasMore
  /\ Len(server) = Total1 + Total2 + 2
  /\ {server[Total1 + Total2 + 1], server[Total1 + Total2 + 2]} = {1, 2}
  /\ events = <<>> /\ used.select = 1
  /\ net = SetToBag({Req("newest", 1, 0)})

\* a backfill answer and a live-append answer for the open conversation
Interleaved(r, q) ==
  /\ r.kind = "older" /\ q.kind = "newest"
  /\ r.conv = conversationId /\ q.conv = conversationId
  /\ r.st = "ok" /\ q.st = "ok" /\ r.page # <<>> /\ q.page # <<>>

\* C22: when a backfill answer and a live-append answer for the open
\* conversation are both outstanding, applying them in either order gives the
\* same window; the backfill's continuation prepends its page to the window
\* as it is then, the live append's adds its message at the end of the window
\* as it is then, so the result is page, window, live message and nothing
\* held is dropped.
C22_AppendCommutesWithBackfill ==
  /\ [](\A r \in InFlight, q \in InFlight :
          Interleaved(r, q)
          => MergeNewest(r.page \o messages, q.page[1])
               = r.page \o MergeNewest(messages, q.page[1]))
  /\ [][\A r \in InFlight :
          (r.conv = conversationId /\ Answered(r))
          => /\ (r.kind = "older" /\ r.page # <<>>)
                  => messages' = r.page \o messages
             /\ (r.kind = "newest" /\ r.page # <<>>)
                  => /\ messages' = MergeNewest(messages, r.page[1])
                     /\ \E i \in 1..Len(messages') :
                          /\ SubSeq(messages', 1, i - 1)
                               = SubSeq(messages, 1, i - 1)
                          /\ messages'[i] = r.page[1]]_vars

\* C22 witness: the live message has been appended to the window of
\* conversation 1 while the answer of the backfill issued for that window is
\* still on its way
C22_Witness ==
  /\ conversationId = 1 /\ loadingMore
  /\ Len(messages) = PageSize + 1
  /\ messages[Len(messages)] = Total1 + Total2 + 1
  /\ \E r \in InFlight :
       r.kind = "older" /\ r.st = "ok" /\ r.conv = 1 /\ r.before = messages[1]
       /\ Len(r.page) = PageSize

\* C23: the window never holds two messages with the same id.
C23_NoDuplicateIds ==
  \A i \in 1..Len(messages), j \in 1..Len(messages) :
    messages[i] = messages[j] => i = j

\* requests of one kind for conversation c in flight, in any of the states sts
CountFor(kind, sts, c) ==
  BagCardinality([r \in {x \in InFlight : x.kind = kind /\ x.st \in sts
                                          /\ x.conv = c} |-> net[r]])

\* loadMessages() calls the upload continuation has made for conversation c:
\* the uploads the backend stored, less those whose answer is still on its way
Reloads(c) ==
  Cardinality({i \in outbound.upload : server[i] = c})
    - CountFor("upload", {"ok"}, c)

\* A load of the open conversation has ended: of the load the selection
\* issued and the reloads issued since, at least one is no longer in flight
InitialResolved ==
  /\ conversationId # NoConv
  /\ CountFor("initial", {"sent", "ok"}, conversationId)
       <= Reloads(conversationId)

\* C24: while a conversation stays selected, once a load of it has ended and
\* a backfill has extended the window beyond one page, no step of that
\* conversation's backfill, live append, send or upload removes a message id
\* from the window.
C24_WindowNeverShrinks ==
  [][( /\ InitialResolved /\ conversationId' = conversationId
       /\ OwnWindow /\ Len(messages) > PageSize
       /\ \A r \in InFlight : Answered(r) => r.conv = conversationId )
       => Range(messages) \subseteq Range(messages')]_vars

\* the message the backend stored for the last send into conversation c
LastSent(c) ==
  LET S == {i \in outbound.send : server[i] = c}
  IN CHOOSE i \in S : \A j \in S : j <= i

\* C25: when the follow-up fetch of a send into the open conversation
\* succeeds, the message that send stored is in the window.
C25_SentMessageShown ==
  [][\A r \in InFlight :
        (r.kind = "sendfetch" /\ r.conv = conversationId /\ Answered(r))
        => LastSent(r.conv) \in Range(messages')]_vars

\* This step hands a failure of the backfill request r to loadOlderMessages
BackfillFailed(r) == r.kind = "older" /\ Failed(r) /\ ~unloaded'

\* C26: a busy flag that is set is cleared again; the step that ends a
\* backfill, successfully or not, clears loadingMore, the step that ends a
\* send clears sending, the step that ends an upload clears uploading; a
\* failed backfill leaves the window and has-more as they are.
C26_BusyFlagsCleared ==
  /\ loadingMore ~> ~loadingMore
  /\ sending ~> ~sending
  /\ uploading ~> ~uploading
  /\ [][\A r \in InFlight :
          /\ (r.kind = "older" /\ (Answered(r) \/ BackfillFailed(r)))
               => ~loadingMore'
          /\ BackfillFailed(r) => UNCHANGED <<messages, hasMore>>
          /\ (r.kind = "sendfetch" /\ Answered(r)) => ~sending'
          /\ SendFailed(r) => ~sending'
          /\ (r.kind = "upload" /\ CopiesIn(r, net') < CopiesIn(r, net)
              /\ r.st = "ok")
               => ~uploading'
          /\ (r.kind = "upload" /\ Failed(r)) => ~uploading']_vars

\* C26 witness: the backfill of the open conversation was answered 401; the
\* flag is cleared, the window and has-more are as the initial load left them
C26_Witness ==
  /\ conversationId = 1 /\ used.select = 1 /\ used.new = 0
  /\ Len(messages) = PageSize /\ hasMore /\ ~loadingMore
  /\ net = EmptyBag /\ href = Login /\ ~unloaded

\* C27: once every credentials fetch has been answered, the credentials held
\* while the edit form of a channel is open were not fetched for another
\* channel, and no save request carries credentials fetched for a channel
\* other than the one it saves.
C27_CredentialsOfEditedChannel ==
  /\ ( /\ crud.editChannel # NoId /\ crud.credentials.from = "fetched"
       /\ \A r \in Calling : r.op # "getcreds" )
     => crud.credentials.id = crud.editChannel
  /\ \A r \in Calling :
       (r.op = "credentials" /\ r.creds.from = "fetched") => r.creds.id = r.id

\* C28: when no conversation-list request is in flight, the list shown is the
\* backend's list for the selected filter.
C28_ListMatchesFilter ==
  lists = EmptyBag => conversations = ListOf(filter)

\* This step hands the failure of the PUT r to the catch of toggle
PutFailed(r) ==
  /\ r.op = "put" /\ r.st = "sent"
  /\ CopiesIn(r, toggles') < CopiesIn(r, toggles)
  /\ CopiesIn([r EXCEPT !.st = "ok"], toggles')
       = CopiesIn([r EXCEPT !.st = "ok"], toggles)
  /\ ~unloaded'

\* C29: a toggle whose PUT fails shows the value that was shown before that
\* toggle again, and when no request of the toggle is in flight the value
\* shown is the value the backend holds.
C29_ToggleConverges ==
  /\ []((toggles = EmptyBag /\ ~ai.loading)
          => ai.enabled = store.ai_auto_reply_enabled)
  /\ [][\A r \in Toggling : PutFailed(r) => ai.enabled' = ~r.val]_vars

\* the join_conversation emits are each closed by the leave of the same
\* conversation before anything else is emitted, but for the last one
Paired(es) ==
  /\ \A i \in 1..Len(es) :
       es[i][1] = "join" => (i = Len(es) \/ es[i + 1] = <<"leave", es[i][2]>>)
  /\ \A i \in 1..Len(es) :
       es[i][1] = "leave" => (i > 1 /\ es[i - 1] = <<"join", es[i][2]>>)

\* the conversation whose join_conversation has not been closed yet
Joined(es) ==
  IF es # <<>> /\ es[Len(es)][1] = "join" THEN es[Len(es)][2] ELSE NoConv

\* C30: at most one new_message handler of ChatPanel is registered and it is
\* the one of the selected conversation; every join_conversation(c) is closed
\* by leave_conversation(c), with c's handler taken off, before another
\* conversation is joined, and when ChatPanel unmounts.
C30_ScopeSymmetric ==
  /\ BagCardinality(listeners) <= 1
  /\ \A c \in BagToSet(listeners) : c = conversationId /\ c = Joined(emits)
  /\ Paired(emits)
  /\ Joined(emits) \in {conversationId, NoConv}
  /\ Joined(emits) # NoConv => listeners = SetToBag({Joined(emits)})
  /\ route # "conversations" => Joined(emits) = NoConv /\ listeners = EmptyBag

\* two conversations were joined in turn and the page was left
C30_Witness ==
  /\ route # "conversations"
  /\ emits = <<<<"join", 1>>, <<"leave", 1>>, <<"join", 2>>, <<"leave", 2>>>>

====
